---- MODULE Spec2Model ----
(***************************************************************************)
(* Model of the action execution engine of cgrates (engine/action.go):     *)
(* the account-removal cascade under the guardian lock, the weighted sort  *)
(* of an Actions list, the handlers that work on an account's balances and *)
(* the CDR synthesis of *cdrlog.                                            *)
(***************************************************************************)
EXTENDS Integers, Sequences, FiniteSets, TLC

\* package utils: the errors and constants the engine uses
utils ==
    [ ErrNotFound |-> "NOT_FOUND",
      ErrInvalidKey |-> "INVALID_KEY",
      ErrAccountNotFound |-> "ACCOUNT_NOT_FOUND",
      ACTION_PLAN_PREFIX |-> "apl_",
      MONETARY |-> "*monetary",
      VOICE |-> "*voice",
      SMS |-> "*sms",
      META_DEFAULT |-> "*default",
      ErrParserError |-> "PARSER_ERROR",
      ErrUnauthorizedApi |-> "UNAUTHORIZED_API",
      ErrNotConnected |-> "NOT_CONNECTED",
      SessionSv1Ping |-> "SessionSv1.Ping",
      SessionSv1AuthorizeEventWithDigest |-> "SessionSv1.AuthorizeEventWithDigest",
      SessionSv1InitiateSessionWithDigest |-> "SessionSv1.InitiateSessionWithDigest",
      SessionSv1ProcessCDR |-> "SessionSv1.ProcessCDR",
      SessionSv1ProcessEvent |-> "SessionSv1.ProcessEvent",
      SessionSv1TerminateSession |-> "SessionSv1.TerminateSession",
      SessionSv1UpdateSession |-> "SessionSv1.UpdateSession",
      META_PREPAID |-> "*prepaid" ]

\* ------------------------------------------------------------------------
\* Error values.  NoErr is Go's nil error.
NoErr == "nil"
ErrIO == "io error"
ErrJSON == "json: cannot unmarshal"

\* ========================================================================
\* remove_account (removeAccountAction) and the stores it works on
\* ========================================================================

\* The accounts being removed; every execution of the handler is identified
\* with the account id it resolves.  Other is an account nobody removes.
Accts == {"acc1", "acc2"}
Other == "acc3"
Plans == {"AP1", "AP2"}
NoOne == "none"

\* utils.ACTION_PLAN_PREFIX, the name of the guardian lock
LockNames == {utils.ACTION_PLAN_PREFIX} \cup Accts

\* where the handler's inputs name the account: the live account, the
\* ExtraParameters JSON, ExtraParameters that do not parse, and with a nil
\* account no ExtraParameters or a JSON whose Tenant and Account are empty
Inputs == {"ub", "params", "badjson", "noparams", "emptyfields"}

VARIABLES
    accountDB,   \* account store: the ids of the stored accounts
    aapDB,       \* account -> its plan-membership index [has, ids]
    planDB,      \* action plan -> AccountIDs
    apCache,     \* action plan -> cache entry [cached, ids]
    aapCache,    \* account -> cache entry of its index [cached, ids]
    locks,       \* guardian: lock name -> holder
    pc,          \* per execution: the statement it is at
    call,        \* per execution: "first" or "second" call for the account
    accKey,      \* per execution: the account id resolved (lines 638-652)
    acntAPids,   \* per execution: the plan ids looked up (line 663)
    idx,         \* per execution: position of the loop of line 668
    ap,          \* per execution: AccountIDs of the plan loaded (line 669)
    gerr,        \* per execution: the error the guarded function returns
    ret,         \* per execution: the error the handler returns
    persisted,   \* per execution: plans it has persisted (history)
    lookupNF,    \* per execution: the index lookup said not found (history)
    \* Actions.Sort
    apl,         \* the Actions list, sorted in place
    apl0,        \* the list as it was before Sort() (history)
    sortImpl,    \* which sort.Sort the build links
    sorted,      \* Sort() has returned
    \* the handlers that work on an account
    ub,          \* the account handed to the handler (nil included)
    ub0,         \* the account as it was before the handler ran (history)
    act,         \* the action handed to the handler
    sq,          \* the triggering stats queue (nil included)
    destDB,      \* destination store: id -> [has, prefixes]
    revDB,       \* reverse destination index: <<prefix, id>> pairs
    published,   \* what has been published to the thresholds
    herr,        \* the error the handler returned
    ran,         \* the action type that was executed, "" before
    \* cdrlog
    acs,         \* the Actions list the action belongs to (the siblings)
    next,        \* the position in acs of the next sibling to execute
    cdrStorage,  \* whether a CDR store is configured (cdrStorage != nil)
    cdrDB,       \* the CDRs the store holds, in the order they were set
    \* Actions.Clone
    heap,        \* the objects pointers point to: address -> Action, BalanceFilter or bool
    orig,        \* the Actions list that is cloned: the addresses of its actions
    cln,         \* what Clone returned: [err, apl]
    wrote,       \* the list a field was written through after the clone, "" before
    \* the notification handlers and the dispatcher's session methods
    req,         \* the call made and its inputs, req.typ = "" before it
    rerr,        \* what the call returned, "" while it has not returned
    task,        \* the background task the call launched: [pc, i]
    remote,      \* the remote operations made so far, in order: [kind, method, err]
    slept,       \* the minutes the mail task slept, in order
    warned,      \* the warning of the mail task that gave up was logged
    \* NavigableMap.FieldAsInterface
    nM,          \* the navigable map of the lookup
    fldPath,     \* the path looked up
    fld          \* what the lookup returned: [val, err], err = "" before it

raVars == <<accountDB, aapDB, planDB, apCache, aapCache, locks, pc, call, accKey,
            acntAPids, idx, ap, gerr, ret, persisted, lookupNF>>

sortVars == <<apl, apl0, sortImpl, sorted>>

hVars == <<ub, ub0, act, sq, destDB, revDB, published, herr, ran>>

cdrVars == <<acs, next, cdrStorage, cdrDB>>

cloneVars == <<heap, orig, cln, wrote>>

callVars == <<req, rerr, task, remote, slept, warned>>

nmVars == <<nM, fldPath, fld>>

vars == <<raVars, sortVars, hVars, cdrVars, cloneVars, callVars, nmVars>>

\* the plan ids of an index in the order the store returns them
RECURSIVE IdSeq(_)
IdSeq(S) ==
    IF S = {} THEN <<>>
    ELSE LET x == CHOOSE y \in S : \A z \in S : y = z \/ y \in {"AP1"} \/ z \notin {"AP1"}
         IN  <<x>> \o IdSeq(S \ {x})

Range(s) == {s[i] : i \in 1..Len(s)}

\* line 691: the lock the handler asks the guardian for
LockKeyByAccount(accID) == accID
LockKey(accID) == utils.ACTION_PLAN_PREFIX

\* line 662: after the account is deleted the handler enters Guard
SkipGuard == "getAAP"
AfterRemoveAccount == "guard"

\* line 664: the lookup's error ends the guarded function unless not found
AnyErrFails(err) == err # NoErr
LookupFails(err) == err # NoErr /\ err # utils.ErrNotFound

\* line 674: delete(ap.AccountIDs, accID)
DeleteAccountID(ids, accID) == ids \ {accID}

\* line 686: the error of the index's cache reload, not found tolerated
ReloadFails(err) == err # NoErr /\ err # utils.ErrNotFound

\* lines 692-695: the handler returns the guarded function's error
SwallowErr(err) == NoErr
RemoveAccountReturn(err) == err

\* guardian: a named lock is free, is taken by an execution, and every lock
\* an execution holds is released when Guard returns
GuardianFree(name) == locks[name] = NoOne
GuardianLocked(name, who) == [locks EXCEPT ![name] = who]
GuardianReleased(who) == [n \in LockNames |-> IF locks[n] = who THEN NoOne ELSE locks[n]]

\* data store, read with skipCache = false: the cache entry when there is one
LoadActionPlan(apID) ==
    IF apCache[apID].cached THEN apCache[apID].ids ELSE planDB[apID]

\* cache reload of the action plans ids: every cached entry among them is
\* replaced by what the store holds
ReloadActionPlans(ids) ==
    [p \in Plans |-> IF p \in ids /\ apCache[p].cached
                     THEN [cached |-> TRUE, ids |-> planDB[p]]
                     ELSE apCache[p]]

\* cache reload of one account's index: not found when the store has none
ReloadIndexErr(accID) == IF aapDB[accID].has THEN NoErr ELSE utils.ErrNotFound
ReloadIndex(accID) ==
    IF aapDB[accID].has /\ aapCache[accID].cached
    THEN [cached |-> TRUE, ids |-> aapDB[accID].ids]
    ELSE [cached |-> FALSE, ids |-> {}]

RAStores ==
    /\ accountDB = Accts \cup {Other}
    /\ aapDB \in [Accts -> {[has |-> TRUE, ids |-> S] : S \in (SUBSET Plans) \ {{}}}
                           \cup {[has |-> FALSE, ids |-> {}]}]
    /\ planDB = [p \in Plans |-> {a \in Accts : aapDB[a].has /\ p \in aapDB[a].ids} \cup {Other}]
    /\ \E c \in BOOLEAN :
          apCache = [p \in Plans |-> [cached |-> c, ids |-> IF c THEN planDB[p] ELSE {}]]
    /\ \E c \in BOOLEAN :
          aapCache = [a \in Accts |->
                        IF c /\ aapDB[a].has THEN [cached |-> TRUE, ids |-> aapDB[a].ids]
                        ELSE [cached |-> FALSE, ids |-> {}]]
    /\ locks = [n \in LockNames |-> NoOne]
    /\ pc = [a \in Accts |-> "start"]
    /\ call = [a \in Accts |-> "first"]
    /\ accKey = [a \in Accts |-> "unresolved"]
    /\ acntAPids = [a \in Accts |-> <<>>]
    /\ idx = [a \in Accts |-> 1]
    /\ ap = [a \in Accts |-> {}]
    /\ gerr = [a \in Accts |-> NoErr]
    /\ ret = [a \in Accts |-> NoErr]
    /\ persisted = [a \in Accts |-> {}]
    /\ lookupNF = [a \in Accts |-> FALSE]

\* no remove_account is executing: the stores hold no plan membership
RAIdle ==
    /\ RAStores
    /\ \A a \in Accts : ~aapDB[a].has
    /\ \A p \in Plans : ~apCache[p].cached

\* utils.AccountKey(tenant, account): the id composed of the two; an
\* execution is identified with the account its id names, and only two empty
\* strings compose to the empty id
AccountKey(tenant, account) == IF tenant = "" /\ account = "" THEN "" ELSE account

StartUnchecked(self) ==
    /\ pc[self] = "start"
    /\ \E inp \in Inputs :
         accKey' = [accKey EXCEPT ![self] = IF inp \in {"ub", "params"} THEN self ELSE ""]
    /\ pc' = [pc EXCEPT ![self] = "removeAccount"]
    /\ UNCHANGED <<accountDB, aapDB, planDB, apCache, aapCache, locks, call,
                   acntAPids, idx, ap, gerr, ret, persisted, lookupNF>>
    /\ UNCHANGED <<sortVars, hVars, cdrVars, cloneVars, callVars, nmVars>>

\* lines 638-655: resolve the account id
Start(self) ==
    /\ pc[self] = "start"
    /\ \E inp \in Inputs :
         LET id == CASE inp = "ub" -> self
                     [] inp = "params" -> AccountKey("cgrates.org", self)
                     [] OTHER -> AccountKey("", "")
         IN  IF inp = "badjson"
             THEN /\ ret' = [ret EXCEPT ![self] = ErrJSON]
                  /\ pc' = [pc EXCEPT ![self] = "done"]
                  /\ accKey' = accKey
             ELSE /\ accKey' = [accKey EXCEPT ![self] = id]
                  /\ IF id = ""
                     THEN /\ ret' = [ret EXCEPT ![self] = utils.ErrInvalidKey]
                          /\ pc' = [pc EXCEPT ![self] = "done"]
                     ELSE /\ ret' = ret
                          /\ pc' = [pc EXCEPT ![self] = "removeAccount"]
    /\ UNCHANGED <<accountDB, aapDB, planDB, apCache, aapCache, locks, call,
                   acntAPids, idx, ap, gerr, persisted, lookupNF>>
    /\ UNCHANGED <<sortVars, hVars, cdrVars, cloneVars, callVars, nmVars>>

RemoveAccountGoesOn(self) ==
    /\ pc[self] = "removeAccount"
    /\ \/ accountDB' = accountDB \ {self} /\ ret' = ret
       \/ accountDB' = accountDB /\ ret' = [ret EXCEPT ![self] = ErrIO]
    /\ pc' = [pc EXCEPT ![self] = AfterRemoveAccount]
    /\ UNCHANGED <<aapDB, planDB, apCache, aapCache, locks, call, accKey,
                   acntAPids, idx, ap, gerr, persisted, lookupNF>>
    /\ UNCHANGED <<sortVars, hVars, cdrVars, cloneVars, callVars, nmVars>>

\* lines 657-660: dm.DataDB().RemoveAccount(accID)
RemoveAccount(self) ==
    /\ pc[self] = "removeAccount"
    /\ \/ /\ accountDB' = accountDB \ {self}
          /\ pc' = [pc EXCEPT ![self] = AfterRemoveAccount]
          /\ ret' = ret
       \/ /\ accountDB' = accountDB
          /\ ret' = [ret EXCEPT ![self] = ErrIO]
          /\ pc' = [pc EXCEPT ![self] = "done"]
    /\ UNCHANGED <<aapDB, planDB, apCache, aapCache, locks, call, accKey,
                   acntAPids, idx, ap, gerr, persisted, lookupNF>>
    /\ UNCHANGED <<sortVars, hVars, cdrVars, cloneVars, callVars, nmVars>>

\* line 662: guardian.Guardian.Guard(..., 0, utils.ACTION_PLAN_PREFIX) takes the lock
Guard(self) ==
    /\ pc[self] = "guard"
    /\ GuardianFree(LockKey(self))
    /\ locks' = GuardianLocked(LockKey(self), self)
    /\ pc' = [pc EXCEPT ![self] = "getAAP"]
    /\ UNCHANGED <<accountDB, aapDB, planDB, apCache, aapCache, call, accKey,
                   acntAPids, idx, ap, gerr, ret, persisted, lookupNF>>
    /\ UNCHANGED <<sortVars, hVars, cdrVars, cloneVars, callVars, nmVars>>

\* data store, GetAccountActionPlans(accID, false, ...): the cached index when
\* there is one, else the stored one, else not found
LookupErr(self) ==
    IF aapCache[self].cached \/ aapDB[self].has THEN NoErr ELSE utils.ErrNotFound
LookupIds(self) ==
    IF aapCache[self].cached THEN aapCache[self].ids
    ELSE IF aapDB[self].has THEN aapDB[self].ids ELSE {}

\* lines 663-667
GetAccountActionPlans(self) ==
    /\ pc[self] = "getAAP"
    /\ \E err \in {LookupErr(self), ErrIO} :
         /\ lookupNF' = [lookupNF EXCEPT ![self] = (err = utils.ErrNotFound)]
         /\ IF LookupFails(err)
            THEN /\ gerr' = [gerr EXCEPT ![self] = err]
                 /\ pc' = [pc EXCEPT ![self] = "unguard"]
                 /\ acntAPids' = acntAPids
            ELSE /\ gerr' = gerr
                 /\ acntAPids' = [acntAPids EXCEPT ![self] =
                                    IF err = NoErr THEN IdSeq(LookupIds(self)) ELSE <<>>]
                 /\ pc' = [pc EXCEPT ![self] = "getAP"]
    /\ idx' = [idx EXCEPT ![self] = 1]
    /\ UNCHANGED <<accountDB, aapDB, planDB, apCache, aapCache, locks, call, accKey,
                   ap, ret, persisted>>
    /\ UNCHANGED <<sortVars, hVars, cdrVars, cloneVars, callVars, nmVars>>

\* lines 668-673: the head of the loop and GetActionPlan(apID, false, ...)
GetActionPlan(self) ==
    /\ pc[self] = "getAP"
    /\ IF idx[self] > Len(acntAPids[self])
       THEN /\ pc' = [pc EXCEPT ![self] = "cacheAP"]
            /\ UNCHANGED <<ap, gerr>>
       ELSE LET apID == acntAPids[self][idx[self]] IN
            \/ /\ ap' = [ap EXCEPT ![self] = LoadActionPlan(apID)]
               /\ pc' = [pc EXCEPT ![self] = "setAP"]
               /\ gerr' = gerr
            \/ /\ gerr' = [gerr EXCEPT ![self] = ErrIO]
               /\ pc' = [pc EXCEPT ![self] = "unguard"]
               /\ ap' = ap
    /\ UNCHANGED <<accountDB, aapDB, planDB, apCache, aapCache, locks, call, accKey,
                   acntAPids, idx, ret, persisted, lookupNF>>
    /\ UNCHANGED <<sortVars, hVars, cdrVars, cloneVars, callVars, nmVars>>

\* lines 674-678: delete(ap.AccountIDs, accID) and SetActionPlan(apID, ap, true, ...)
SetActionPlan(self) ==
    /\ pc[self] = "setAP"
    /\ LET apID == acntAPids[self][idx[self]] IN
       \/ /\ planDB' = [planDB EXCEPT ![apID] = DeleteAccountID(ap[self], self)]
          /\ persisted' = [persisted EXCEPT ![self] = @ \cup {apID}]
          /\ idx' = [idx EXCEPT ![self] = @ + 1]
          /\ pc' = [pc EXCEPT ![self] = "getAP"]
          /\ gerr' = gerr
       \/ /\ gerr' = [gerr EXCEPT ![self] = ErrIO]
          /\ pc' = [pc EXCEPT ![self] = "unguard"]
          /\ UNCHANGED <<planDB, persisted, idx>>
    /\ UNCHANGED <<accountDB, aapDB, apCache, aapCache, locks, call, accKey,
                   acntAPids, ap, ret, lookupNF>>
    /\ UNCHANGED <<sortVars, hVars, cdrVars, cloneVars, callVars, nmVars>>

\* lines 680-682: dm.CacheDataFromDB(utils.ACTION_PLAN_PREFIX, acntAPids, true)
CacheActionPlans(self) ==
    /\ pc[self] = "cacheAP"
    /\ \/ /\ apCache' = ReloadActionPlans(Range(acntAPids[self]))
          /\ pc' = [pc EXCEPT ![self] = "remAAP"]
          /\ gerr' = gerr
       \/ /\ gerr' = [gerr EXCEPT ![self] = ErrIO]
          /\ pc' = [pc EXCEPT ![self] = "unguard"]
          /\ apCache' = apCache
    /\ UNCHANGED <<accountDB, aapDB, planDB, aapCache, locks, call, accKey,
                   acntAPids, idx, ap, ret, persisted, lookupNF>>
    /\ UNCHANGED <<sortVars, hVars, cdrVars, cloneVars, callVars, nmVars>>

\* lines 683-685: dm.DataDB().RemAccountActionPlans(accID, nil)
RemAccountActionPlans(self) ==
    /\ pc[self] = "remAAP"
    /\ \/ /\ aapDB' = [aapDB EXCEPT ![self] = [has |-> FALSE, ids |-> {}]]
          /\ pc' = [pc EXCEPT ![self] = "cacheAAP"]
          /\ gerr' = gerr
       \/ /\ gerr' = [gerr EXCEPT ![self] = ErrIO]
          /\ pc' = [pc EXCEPT ![self] = "unguard"]
          /\ aapDB' = aapDB
    /\ UNCHANGED <<accountDB, planDB, apCache, aapCache, locks, call, accKey,
                   acntAPids, idx, ap, ret, persisted, lookupNF>>
    /\ UNCHANGED <<sortVars, hVars, cdrVars, cloneVars, callVars, nmVars>>

\* lines 686-689: dm.CacheDataFromDB(utils.AccountActionPlansPrefix, {accID}, true)
CacheAccountActionPlans(self) ==
    /\ pc[self] = "cacheAAP"
    /\ \E err \in {ReloadIndexErr(self), ErrIO} :
         /\ aapCache' = [aapCache EXCEPT ![self] =
                           IF err = ErrIO THEN @ ELSE ReloadIndex(self)]
         /\ gerr' = [gerr EXCEPT ![self] = IF ReloadFails(err) THEN err ELSE NoErr]
    /\ pc' = [pc EXCEPT ![self] = "unguard"]
    /\ UNCHANGED <<accountDB, aapDB, planDB, apCache, locks, call, accKey,
                   acntAPids, idx, ap, ret, persisted, lookupNF>>
    /\ UNCHANGED <<sortVars, hVars, cdrVars, cloneVars, callVars, nmVars>>

\* lines 691-695: Guard returns (the lock is released) and the handler returns
Unguard(self) ==
    /\ pc[self] = "unguard"
    /\ locks' = GuardianReleased(self)
    /\ ret' = [ret EXCEPT ![self] = RemoveAccountReturn(gerr[self])]
    /\ pc' = [pc EXCEPT ![self] = "done"]
    /\ UNCHANGED <<accountDB, aapDB, planDB, apCache, aapCache, call, accKey,
                   acntAPids, idx, ap, gerr, persisted, lookupNF>>
    /\ UNCHANGED <<sortVars, hVars, cdrVars, cloneVars, callVars, nmVars>>

\* the caller invokes remove_account a second time for the same account id
CallAgain(self) ==
    /\ pc[self] = "done"
    /\ call[self] = "first"
    /\ call' = [call EXCEPT ![self] = "second"]
    /\ accKey' = [accKey EXCEPT ![self] = "unresolved"]
    /\ pc' = [pc EXCEPT ![self] = "start"]
    /\ acntAPids' = [acntAPids EXCEPT ![self] = <<>>]
    /\ idx' = [idx EXCEPT ![self] = 1]
    /\ ap' = [ap EXCEPT ![self] = {}]
    /\ gerr' = [gerr EXCEPT ![self] = NoErr]
    /\ ret' = [ret EXCEPT ![self] = NoErr]
    /\ persisted' = [persisted EXCEPT ![self] = {}]
    /\ lookupNF' = [lookupNF EXCEPT ![self] = FALSE]
    /\ UNCHANGED <<accountDB, aapDB, planDB, apCache, aapCache, locks>>
    /\ UNCHANGED <<sortVars, hVars, cdrVars, cloneVars, callVars, nmVars>>



\* ========================================================================
\* Actions.Sort (lines 884-899)
\* ========================================================================

\* the longest Actions list and the weights its actions carry
MaxLen == 7
Weights == {10, 20}

\* the lists a caller may hand to Sort(): Id is the action's place in the input
ActionsLists ==
    UNION {[1..n -> Weights] : n \in 0..MaxLen}
AsActions(ws) == [i \in 1..Len(ws) |-> [Id |-> i, Weight |-> ws[i]]]

\* lines 888-890
Swap(l, i, j) == [l EXCEPT ![i] = l[j], ![j] = l[i]]

\* lines 893-895: Less(j, i) is apl[i].Weight < apl[j].Weight
LessAscending(l, j, i) == l[j].Weight < l[i].Weight
Less(l, j, i) == l[i].Weight < l[j].Weight

\* sort.Sort of the Go standard library on a slice of at most 12 elements:
\* insertionSort, which quickSort (Go before 1.19) runs after one ShellSort
\* pass with gap 6 and pdqsort (Go 1.19 and later) runs alone
ShellGap == 6
MaxInsertion == 12

RECURSIVE InsertDown(_, _)
InsertDown(l, j) ==
    IF j > 1 /\ Less(l, j, j - 1) THEN InsertDown(Swap(l, j, j - 1), j - 1) ELSE l

RECURSIVE InsertionSort(_, _)
InsertionSort(l, i) ==
    IF i > Len(l) THEN l ELSE InsertionSort(InsertDown(l, i), i + 1)

RECURSIVE ShellPass(_, _)
ShellPass(l, i) ==
    IF i > Len(l) THEN l
    ELSE ShellPass(IF Less(l, i, i - ShellGap) THEN Swap(l, i, i - ShellGap) ELSE l, i + 1)

SortImpls == {"quickSort", "pdqsort"}

\* lines 897-899: sort.Sort(apl)
SortActions(l, impl) ==
    IF Len(l) <= 1 THEN l
    ELSE IF impl = "quickSort" THEN InsertionSort(ShellPass(l, ShellGap + 1), 2)
    ELSE InsertionSort(l, 2)

SortIdle ==
    /\ apl = <<>>
    /\ apl0 = <<>>
    /\ sortImpl = "quickSort"
    /\ sorted = FALSE

SortInit ==
    /\ MaxLen <= MaxInsertion
    /\ \E ws \in ActionsLists : apl = AsActions(ws)
    /\ apl0 = apl
    /\ sortImpl \in SortImpls
    /\ sorted = FALSE

\* apl.Sort()
Sort ==
    /\ ~sorted
    /\ apl' = SortActions(apl, sortImpl)
    /\ sorted' = TRUE
    /\ UNCHANGED <<apl0, sortImpl>>
    /\ UNCHANGED <<raVars, hVars, cdrVars, cloneVars, callVars, nmVars>>

\* ========================================================================
\* The handlers that work on an account (lines 348-495, 587-635, 698-879)
\* ========================================================================

ErrNilAccount == "nil account"
Panic == "panic: nil pointer dereference"

\* lines 56-85: the action types
ActionTypes ==
    [ LOG |-> "*log",
      RESET_TRIGGERS |-> "*reset_triggers",
      SET_RECURRENT |-> "*set_recurrent",
      UNSET_RECURRENT |-> "*unset_recurrent",
      ALLOW_NEGATIVE |-> "*allow_negative",
      DENY_NEGATIVE |-> "*deny_negative",
      RESET_ACCOUNT |-> "*reset_account",
      SET_BALANCE |-> "*set_balance",
      REMOVE_BALANCE |-> "*remove_balance",
      TOPUP_RESET |-> "*topup_reset",
      TOPUP |-> "*topup",
      DEBIT_RESET |-> "*debit_reset",
      DEBIT |-> "*debit",
      RESET_COUNTERS |-> "*reset_counters",
      ENABLE_ACCOUNT |-> "*enable_account",
      DISABLE_ACCOUNT |-> "*disable_account",
      CDRLOG |-> "*cdrlog",
      SET_DDESTINATIONS |-> "*set_ddestinations",
      TRANSFER_MONETARY_DEFAULT |-> "*transfer_monetary_default",
      TopUpZeroNegative |-> "*topup_zero_negative",
      SetExpiry |-> "*set_expiry",
      MetaPublishAccount |-> "*publish_account",
      CALL_URL |-> "*call_url",
      CALL_URL_ASYNC |-> "*call_url_async",
      MAIL_ASYNC |-> "*mail_async",
      CGR_RPC |-> "*cgr_rpc" ]

DDC_DEST == "*ddc_dest"
ZeroTime == 0

\* the longest balance chain of a bucket
MaxBal == 3

\* a *Balance; Uuid stands for the pointer's identity
Bal(uuid, id, v, e, d) ==
    [Uuid |-> uuid, ID |-> id, Value |-> v, ExpirationDate |-> e, DestinationIDs |-> d]

\* &Balance{Value: 0} (line 490)
ZeroBalance == Bal("", "", 0, ZeroTime, {})

\* a nil *Account
NilAccount ==
    [nil |-> TRUE, ID |-> "", BalanceMap |-> <<>>, AllowNegative |-> FALSE,
     Disabled |-> FALSE, UnitCounters |-> [nil |-> TRUE, value |-> 0],
     ActionTriggers |-> <<>>]

Account(bm, neg, dis, uc, ats) ==
    [nil |-> FALSE, ID |-> "cgrates.org:1001", BalanceMap |-> bm, AllowNegative |-> neg,
     Disabled |-> dis, UnitCounters |-> uc, ActionTriggers |-> ats]

\* a *BalanceFilter (nil: the Action has no Balance); ID "" and ExpirationDate
\* ZeroTime stand for a nil field
Filter(t, id, v, e) ==
    [nil |-> FALSE, Type |-> t, ID |-> id, Value |-> v, ExpirationDate |-> e]

\* BalanceFilter.GetExpirationDate: the zero time for a nil pointer
GetExpirationDate(f) == f.ExpirationDate

\* Balance.MatchFilter(o, skipIds, skipExpiry)
MatchFilter(b, f, skipIds, skipExpiry) ==
    IF ~skipIds /\ f.ID # "" THEN b.ID = f.ID
    ELSE skipExpiry \/ f.ExpirationDate = ZeroTime \/ b.ExpirationDate = f.ExpirationDate

\* the result of a handler: its error, and the account and the action after it
Result(err, u, a) == [err |-> err, ub |-> u, a |-> a]

\* Account.ResetActionTriggers, Account.SetRecurrent, UnitCounters.resetCounters,
\* Account.InitCounters
ResetActionTriggers(u) ==
    [u EXCEPT !.ActionTriggers = [i \in DOMAIN @ |-> [@[i] EXCEPT !.Executed = FALSE]]]
SetRecurrent(u, r) ==
    [u EXCEPT !.ActionTriggers = [i \in DOMAIN @ |-> [@[i] EXCEPT !.Recurrent = r]]]
ResetCounters(u) == [u EXCEPT !.UnitCounters.value = 0]
InitCounters(u) == [u EXCEPT !.UnitCounters = [nil |-> FALSE, value |-> 0]]

\* lines 348-354
resetTriggersAction(u, a) ==
    IF u.nil THEN Result(ErrNilAccount, u, a)
    ELSE Result(NoErr, ResetActionTriggers(u), a)

\* lines 356-362
setRecurrentAction(u, a) ==
    IF u.nil THEN Result(ErrNilAccount, u, a)
    ELSE Result(NoErr, SetRecurrent(u, TRUE), a)

\* lines 364-370
unsetRecurrentAction(u, a) ==
    IF u.nil THEN Result(ErrNilAccount, u, a)
    ELSE Result(NoErr, SetRecurrent(u, FALSE), a)

\* lines 372-378
allowNegativeAction(u, a) ==
    IF u.nil THEN Result(ErrNilAccount, u, a)
    ELSE Result(NoErr, [u EXCEPT !.AllowNegative = TRUE], a)

\* lines 380-386
denyNegativeAction(u, a) ==
    IF u.nil THEN Result(ErrNilAccount, u, a)
    ELSE Result(NoErr, [u EXCEPT !.AllowNegative = FALSE], a)

ResetKeepsChains(u) ==
    ResetActionTriggers(InitCounters(
        [u EXCEPT !.BalanceMap = [k \in DOMAIN @ |-> [i \in 1..Len(@[k]) |-> ZeroBalance]]]))

\* lines 488-495
genericReset(u) ==
    ResetActionTriggers(InitCounters(
        [u EXCEPT !.BalanceMap = [k \in DOMAIN @ |-> <<ZeroBalance>>]]))

\* lines 388-393
resetAccountAction(u, a) ==
    IF u.nil THEN Result(ErrNilAccount, u, a)
    ELSE Result(NoErr, genericReset(u), a)

\* Account.debitBalanceAction(a, reset, resetIfNegative): every balance of the
\* action's type bucket that matches is debited by the action's value (after a
\* reset to zero when asked); a balance is created when none matches;
\* a.balanceValue records the signed amount applied (negative for a credit)
DebitOne(b, f, reset, resetIfNegative) ==
    IF MatchFilter(b, f, FALSE, FALSE)
    THEN [b EXCEPT !.Value =
            (IF reset \/ (resetIfNegative /\ @ < 0) THEN 0 ELSE @) - f.Value]
    ELSE b

debitBalanceAction(u, a, reset, resetIfNegative) ==
    LET f == a.Balance
        chain == IF f.Type \in DOMAIN u.BalanceMap THEN u.BalanceMap[f.Type] ELSE <<>>
        hit == {i \in 1..Len(chain) : MatchFilter(chain[i], f, FALSE, FALSE)}
        debited == [i \in 1..Len(chain) |-> DebitOne(chain[i], f, reset, resetIfNegative)]
        created == Bal("new", f.ID, 0 - f.Value, f.ExpirationDate, {})
        chain2 == IF hit = {} THEN Append(chain, created) ELSE debited
        bm == [t \in DOMAIN u.BalanceMap \cup {f.Type} |->
                 IF t = f.Type THEN chain2 ELSE u.BalanceMap[t]]
    IN  Result(NoErr, InitCounters([u EXCEPT !.BalanceMap = bm]),
               [a EXCEPT !.balanceValue = f.Value])

\* lines 448-452
LeavePositive(a) == a
genericMakeNegative(a) ==
    IF a.Balance.Value > 0 THEN [a EXCEPT !.Balance.Value = 0 - @] ELSE a

\* lines 454-462
genericDebit(u, a, reset) ==
    IF u.nil THEN Result(ErrNilAccount, u, a)
    ELSE debitBalanceAction(u, a, reset, FALSE)

\* lines 395-407; c is a.Clone(), a copy that leaves the unexported
\* balanceValue out
topupResetAction(u, a) ==
    IF u.nil THEN Result(ErrNilAccount, u, a)
    ELSE LET c == genericMakeNegative([a EXCEPT !.balanceValue = 0])
             r == genericDebit(u, c, TRUE)
         IN  Result(r.err, r.ub, [a EXCEPT !.balanceValue = r.a.balanceValue])

\* lines 409-418; c is a.Clone()
topupNoClone(u, a) == genericDebit(u, genericMakeNegative(a), FALSE)
topupAction(u, a) ==
    IF u.nil THEN Result(ErrNilAccount, u, a)
    ELSE LET c == genericMakeNegative([a EXCEPT !.balanceValue = 0])
             r == genericDebit(u, c, FALSE)
         IN  Result(r.err, r.ub, [a EXCEPT !.balanceValue = r.a.balanceValue])

\* lines 420-428
debitResetAction(u, a) ==
    IF u.nil THEN Result(ErrNilAccount, u, a)
    ELSE genericDebit(u, a, TRUE)

\* lines 430-436
DebitAfterReset(u, a) ==
    IF u.nil THEN Result(ErrNilAccount, u, a)
    ELSE genericDebit(u, a, TRUE)
debitAction(u, a) ==
    IF u.nil THEN Result(ErrNilAccount, u, a)
    ELSE genericDebit(u, a, FALSE)

\* lines 438-446
resetCountersAction(u, a) ==
    IF u.nil THEN Result(ErrNilAccount, u, a)
    ELSE Result(NoErr, IF u.UnitCounters.nil THEN u ELSE ResetCounters(u), a)

\* lines 464-470
enableAccountAction(u, a) ==
    IF u.nil THEN Result(ErrNilAccount, u, a)
    ELSE Result(NoErr, [u EXCEPT !.Disabled = FALSE], a)

\* lines 472-478
disableAccountAction(u, a) ==
    IF u.nil THEN Result(ErrNilAccount, u, a)
    ELSE Result(NoErr, [u EXCEPT !.Disabled = TRUE], a)

RECURSIVE RemoveLoopNoRecheck(_, _, _, _)
RemoveLoopNoRecheck(bChain, i, f, found) ==
    IF i > Len(bChain) THEN [chain |-> bChain, found |-> found]
    ELSE IF MatchFilter(bChain[i], f, FALSE, FALSE)
         THEN RemoveLoopNoRecheck(SubSeq([bChain EXCEPT ![i] = bChain[Len(bChain)]],
                                         1, Len(bChain) - 1), i + 1, f, TRUE)
         ELSE RemoveLoopNoRecheck(bChain, i + 1, f, found)

\* lines 706-715: the loop that deletes the matching balances without
\* preserving order; i is re-examined after a deletion
RECURSIVE RemoveLoop(_, _, _, _)
RemoveLoop(bChain, i, f, found) ==
    IF i > Len(bChain) THEN [chain |-> bChain, found |-> found]
    ELSE IF MatchFilter(bChain[i], f, FALSE, FALSE)
         THEN RemoveLoop(SubSeq([bChain EXCEPT ![i] = bChain[Len(bChain)]],
                                1, Len(bChain) - 1), i, f, TRUE)
         ELSE RemoveLoop(bChain, i + 1, f, found)

\* lines 717-720
AlwaysNil(found) == NoErr
NotFoundUnless(found) == IF ~found THEN utils.ErrNotFound ELSE NoErr

\* lines 698-721
removeBalanceAction(u, a) ==
    IF u.nil THEN Result("nil account for action", u, a)
    ELSE IF a.Balance.Type \notin DOMAIN u.BalanceMap
         THEN Result(utils.ErrNotFound, u, a)
         ELSE LET r == RemoveLoop(u.BalanceMap[a.Balance.Type], 1, a.Balance, FALSE)
              IN  Result(NotFoundUnless(r.found),
                         [u EXCEPT !.BalanceMap[a.Balance.Type] = r.chain],
                         a)

\* Account.setBalanceAction: the matching balance takes the filter's value, a
\* balance is created when none matches
setBalance(u, a) ==
    LET f == a.Balance
        chain == IF f.Type \in DOMAIN u.BalanceMap THEN u.BalanceMap[f.Type] ELSE <<>>
        hit == {i \in 1..Len(chain) : MatchFilter(chain[i], f, FALSE, FALSE)}
        chain2 == IF hit = {}
                  THEN Append(chain, Bal("new", f.ID, f.Value, f.ExpirationDate, {}))
                  ELSE [chain EXCEPT ![CHOOSE i \in hit : \A j \in hit : i <= j].Value = f.Value]
    IN  [u EXCEPT !.BalanceMap = [t \in DOMAIN u.BalanceMap \cup {f.Type} |->
                                    IF t = f.Type THEN chain2 ELSE u.BalanceMap[t]]]

\* lines 723-728
setBalanceAction(u, a) ==
    IF u.nil THEN Result("nil account for action", u, a)
    ELSE Result(NoErr, setBalance(u, a), a)

\* Account.GetDefaultMoneyBalance: the position of the *default balance of the
\* monetary bucket, which is appended when the bucket has none
HasDefault(chain) == \E i \in 1..Len(chain) : chain[i].ID = utils.META_DEFAULT
WithDefault(chain) ==
    IF HasDefault(chain) THEN chain
    ELSE Append(chain, Bal("default", utils.META_DEFAULT, 0, ZeroTime, {}))
DefaultIndex(chain) ==
    CHOOSE i \in 1..Len(chain) :
        chain[i].ID = utils.META_DEFAULT /\ \A j \in 1..(i - 1) : chain[j].ID # utils.META_DEFAULT

RECURSIVE TransferLoopKeeps(_, _, _, _)
TransferLoopKeeps(chain, i, d, f) ==
    IF i > Len(chain) THEN chain
    ELSE IF /\ chain[i].Uuid # chain[d].Uuid
            /\ MatchFilter(chain[i], f, FALSE, FALSE)
            /\ chain[i].Value > 0
         THEN TransferLoopKeeps([chain EXCEPT ![d].Value = @ + chain[i].Value], i + 1, d, f)
         ELSE TransferLoopKeeps(chain, i + 1, d, f)

\* lines 740-749: one turn of the loop over the monetary bucket
RECURSIVE TransferLoop(_, _, _, _)
TransferLoop(chain, i, d, f) ==
    IF i > Len(chain) THEN chain
    ELSE IF /\ chain[i].Uuid # chain[d].Uuid
            /\ chain[i].ID # chain[d].ID
            /\ MatchFilter(chain[i], f, FALSE, FALSE)
            /\ chain[i].Value > 0
         THEN TransferLoop([chain EXCEPT ![d].Value = @ + chain[i].Value, ![i].Value = 0],
                           i + 1, d, f)
         ELSE TransferLoop(chain, i + 1, d, f)

\* lines 730-751
transferMonetaryDefaultAction(u, a) ==
    IF u.nil THEN Result(utils.ErrAccountNotFound, u, a)
    ELSE IF utils.MONETARY \notin DOMAIN u.BalanceMap
         THEN Result(utils.ErrNotFound, u, a)
         ELSE LET chain == WithDefault(u.BalanceMap[utils.MONETARY])
              IN  Result(NoErr,
                         [u EXCEPT !.BalanceMap[utils.MONETARY] =
                             TransferLoop(chain, 1, DefaultIndex(chain), a.Balance)],
                         a)

\* lines 840-848
topupZeroNegativeAction(u, a) ==
    IF u.nil THEN Result(ErrNilAccount, u, a)
    ELSE debitBalanceAction(u, a, FALSE, TRUE)

\* line 856: b.MatchFilter(a.Balance, false, true)
ExpiryMatchesAll(b, f) == TRUE
ExpiryMatches(b, f) == MatchFilter(b, f, FALSE, TRUE)

\* lines 850-861
setExpiryAction(u, a) ==
    IF u.nil THEN Result(ErrNilAccount, u, a)
    ELSE Result(NoErr,
                [u EXCEPT !.BalanceMap =
                   [t \in DOMAIN @ |->
                      IF t # a.Balance.Type THEN @[t]
                      ELSE [i \in 1..Len(@[t]) |->
                              IF ExpiryMatches(@[t][i], a.Balance)
                              THEN [@[t][i] EXCEPT !.ExpirationDate = GetExpirationDate(a.Balance)]
                              ELSE @[t][i]]]],
                a)

\* the handlers of getActionFunc (lines 95-127) that need an account and
\* touch nothing but the account and the action
AccountActionTypes ==
    {ActionTypes.RESET_TRIGGERS, ActionTypes.SET_RECURRENT, ActionTypes.UNSET_RECURRENT, ActionTypes.ALLOW_NEGATIVE, ActionTypes.DENY_NEGATIVE,
     ActionTypes.RESET_ACCOUNT, ActionTypes.TOPUP_RESET, ActionTypes.TOPUP, ActionTypes.DEBIT_RESET, ActionTypes.DEBIT, ActionTypes.RESET_COUNTERS,
     ActionTypes.ENABLE_ACCOUNT, ActionTypes.DISABLE_ACCOUNT, ActionTypes.REMOVE_BALANCE, ActionTypes.SET_BALANCE,
     ActionTypes.TRANSFER_MONETARY_DEFAULT, ActionTypes.TopUpZeroNegative, ActionTypes.SetExpiry}

\* lines 95-127
getActionFunc(typ, u, a) ==
    CASE typ = ActionTypes.RESET_TRIGGERS -> resetTriggersAction(u, a)
      [] typ = ActionTypes.SET_RECURRENT -> setRecurrentAction(u, a)
      [] typ = ActionTypes.UNSET_RECURRENT -> unsetRecurrentAction(u, a)
      [] typ = ActionTypes.ALLOW_NEGATIVE -> allowNegativeAction(u, a)
      [] typ = ActionTypes.DENY_NEGATIVE -> denyNegativeAction(u, a)
      [] typ = ActionTypes.RESET_ACCOUNT -> resetAccountAction(u, a)
      [] typ = ActionTypes.TOPUP_RESET -> topupResetAction(u, a)
      [] typ = ActionTypes.TOPUP -> topupAction(u, a)
      [] typ = ActionTypes.DEBIT_RESET -> debitResetAction(u, a)
      [] typ = ActionTypes.DEBIT -> debitAction(u, a)
      [] typ = ActionTypes.RESET_COUNTERS -> resetCountersAction(u, a)
      [] typ = ActionTypes.ENABLE_ACCOUNT -> enableAccountAction(u, a)
      [] typ = ActionTypes.DISABLE_ACCOUNT -> disableAccountAction(u, a)
      [] typ = ActionTypes.REMOVE_BALANCE -> removeBalanceAction(u, a)
      [] typ = ActionTypes.SET_BALANCE -> setBalanceAction(u, a)
      [] typ = ActionTypes.TRANSFER_MONETARY_DEFAULT -> transferMonetaryDefaultAction(u, a)
      [] typ = ActionTypes.TopUpZeroNegative -> topupZeroNegativeAction(u, a)
      [] typ = ActionTypes.SetExpiry -> setExpiryAction(u, a)

\* the driver calls the handler of an action type on the account
Execute(typ) ==
    /\ ran = ""
    /\ LET r == getActionFunc(typ, ub, act) IN
         /\ ub' = r.ub
         /\ herr' = r.err
         /\ act' = [r.a EXCEPT !.ActionType = typ]
    /\ ran' = typ
    /\ UNCHANGED <<ub0, sq, destDB, revDB, published>>
    /\ UNCHANGED <<raVars, sortVars, cdrVars, cloneVars, callVars, nmVars>>

\* lines 863-879
publishAccount ==
    /\ ran = ""
    /\ IF ub.nil
       THEN /\ herr' = ErrNilAccount
            /\ published' = published
       ELSE /\ herr' = NoErr
            /\ published' = published \cup {ub.ID}
                   \cup UNION {{ub.BalanceMap[t][i].Uuid : i \in 1..Len(ub.BalanceMap[t])} :
                                 t \in DOMAIN ub.BalanceMap}
    /\ ran' = ActionTypes.MetaPublishAccount
    /\ act' = [act EXCEPT !.ActionType = ActionTypes.MetaPublishAccount]
    /\ UNCHANGED <<ub, ub0, sq, destDB, revDB>>
    /\ UNCHANGED <<raVars, sortVars, cdrVars, cloneVars, callVars, nmVars>>

\* the destination ids strings.HasPrefix(destId, "*ddc") holds of
DdcIds == {DDC_DEST}
DestIds == {DDC_DEST, "DST_1"}

\* line 589-604: the *ddc destination ids found among the balances
DdcFound(u) ==
    UNION {UNION {u.BalanceMap[t][i].DestinationIDs \cap DdcIds :
                    i \in 1..Len(u.BalanceMap[t])} : t \in DOMAIN u.BalanceMap}

\* DataDB.UpdateReverseDestination(oldDest, newDest)
UpdateReverseDestination(id, old, new) ==
    (revDB \ {<<p, id>> : p \in old}) \cup {<<p, id>> : p \in new}

\* lines 587-635; failAt is the store call that fails, if any
setddestinations ==
    /\ ran = ""
    /\ ran' = ActionTypes.SET_DDESTINATIONS
    /\ act' = [act EXCEPT !.ActionType = ActionTypes.SET_DDESTINATIONS]
    /\ IF ub.nil
       THEN /\ herr' = Panic
            /\ UNCHANGED <<destDB, revDB>>
       ELSE IF DdcFound(ub) = {}
       THEN /\ herr' = utils.ErrNotFound
            /\ UNCHANGED <<destDB, revDB>>
       ELSE \E ddcDestId \in DdcFound(ub) :
            IF sq.nil
            THEN /\ herr' = Panic
                 /\ UNCHANGED <<destDB, revDB>>
            ELSE \E failAt \in {"none", "get", "set", "cache", "reverse"} :
                 LET oldDest == destDB[ddcDestId]
                     newDest == [has |-> TRUE, prefixes |-> sq.Metrics]
                 IN  IF failAt = "get" \/ ~oldDest.has
                     THEN /\ herr' = IF failAt = "get" THEN ErrIO ELSE utils.ErrNotFound
                          /\ UNCHANGED <<destDB, revDB>>
                     ELSE IF failAt = "set"
                     THEN /\ herr' = ErrIO
                          /\ UNCHANGED <<destDB, revDB>>
                     ELSE /\ destDB' = [destDB EXCEPT ![ddcDestId] = newDest]
                          /\ IF failAt \in {"cache", "reverse"}
                             THEN /\ herr' = ErrIO
                                  /\ revDB' = revDB
                             ELSE /\ herr' = NoErr
                                  /\ revDB' = UpdateReverseDestination(
                                                 ddcDestId, oldDest.prefixes, newDest.prefixes)
    /\ UNCHANGED <<ub, ub0, sq, published>>
    /\ UNCHANGED <<raVars, sortVars, cdrVars, cloneVars, callVars, nmVars>>

\* ---- the states the handlers start from

NilQueue == [nil |-> TRUE, Metrics |-> {}]
NoAction ==
    [ActionType |-> "", ExtraParameters |-> "", ExpirationString |-> <<>>,
     Balance |-> Filter(utils.MONETARY, "", 0, ZeroTime), balanceValue |-> 0]
ActionWith(f) == [NoAction EXCEPT !.Balance = f]

HIdle ==
    /\ ub = NilAccount
    /\ ub0 = NilAccount
    /\ act = NoAction
    /\ sq = NilQueue
    /\ destDB = [d \in DestIds |-> [has |-> FALSE, prefixes |-> {}]]
    /\ revDB = {}
    /\ published = {}
    /\ herr = NoErr
    /\ ran = ""

\* the accounts, filters, queues and destination stores the handlers of every
\* action type are run on
HInit ==
    LET BalanceMaps ==
          { <<>>,
            [t \in {utils.MONETARY} |-> <<Bal("u1", "b1", 0 - 5, 1, {})>>],
            [t \in {utils.MONETARY, utils.VOICE} |->
               IF t = utils.MONETARY
               THEN <<Bal("u1", utils.META_DEFAULT, 5, 1, {}), Bal("u2", "b1", 5, 2, {DDC_DEST})>>
               ELSE <<Bal("v1", "b1", 5, 1, {})>>] }
        Triggers == <<[Executed |-> TRUE, Recurrent |-> FALSE]>>
        Accounts ==
          {NilAccount} \cup
          {Account(bm, neg, dis, uc, Triggers) :
              bm \in BalanceMaps, neg \in BOOLEAN, dis \in BOOLEAN,
              uc \in {[nil |-> TRUE, value |-> 0], [nil |-> FALSE, value |-> 3]}}
        Filters ==
          {Filter(t, id, v, e) : t \in {utils.MONETARY, utils.VOICE}, id \in {"", "b1"},
                                 v \in {5, 0, 0 - 5}, e \in {ZeroTime, 1}}
        Present(ds) == [d \in DestIds |-> [has |-> d \in ds,
                                           prefixes |-> IF d \in ds THEN {"+40"} ELSE {}]]
    IN  /\ ub \in Accounts
        /\ ub0 = ub
        /\ act \in {ActionWith(f) : f \in Filters}
        /\ sq \in {NilQueue, [nil |-> FALSE, Metrics |-> {"+49", "+44"}]}
        /\ destDB \in {Present({"DST_1"}), Present(DestIds)}
        /\ revDB = {<<"+40", d>> : d \in {x \in DestIds : destDB[x].has}}
        /\ published = {}
        /\ herr = NoErr
        /\ ran = ""

\* the accounts remove_balance and set_expiry are run on: every chain of up to
\* MaxBal balances in the monetary bucket, a voice bucket beside it
BInit ==
    LET BalanceKinds ==
          { [ID |-> utils.META_DEFAULT, Value |-> 10, ExpirationDate |-> 1],
            [ID |-> "b1", Value |-> 5, ExpirationDate |-> 1],
            [ID |-> "b1", Value |-> 5, ExpirationDate |-> 2],
            [ID |-> "b2", Value |-> 0, ExpirationDate |-> 2],
            [ID |-> "b2", Value |-> 0 - 5, ExpirationDate |-> 1],
            [ID |-> "b2", Value |-> 5, ExpirationDate |-> ZeroTime] }
        Uuids == <<"u1", "u2", "u3", "u4", "u5", "u6">>
        Chains ==
          UNION {{[i \in 1..n |-> Bal(Uuids[i], ks[i].ID, ks[i].Value, ks[i].ExpirationDate, {})] :
                    ks \in [1..n -> BalanceKinds]} : n \in 0..MaxBal}
        Filters ==
          {Filter(t, id, 5, e) : t \in {utils.MONETARY, utils.VOICE, utils.SMS},
                                 id \in {"", "b1", "b9"}, e \in {ZeroTime, 1, 2}}
    IN  /\ \E chain \in Chains :
             ub = Account([t \in {utils.MONETARY, utils.VOICE} |->
                             IF t = utils.MONETARY THEN chain ELSE <<Bal("v1", "b1", 5, 1, {})>>],
                          FALSE, FALSE, [nil |-> TRUE, value |-> 0], <<>>)
        /\ ub0 = ub
        /\ act \in {ActionWith(f) : f \in Filters}
        /\ sq = NilQueue
        /\ destDB = [d \in DestIds |-> [has |-> FALSE, prefixes |-> {}]]
        /\ revDB = {}
        /\ published = {}
        /\ herr = NoErr
        /\ ran = ""

\* ========================================================================
\* cdrlog (parseTemplateValue, lines 142-277, and cdrLogAction, lines 279-346)
\* ========================================================================


\* the longest Actions list handed to cdrlog
MaxSiblings == 3

\* A string is the sequence of its parts: a number is written digit by digit,
\* any other text is one part.
DigitChars == <<"0", "1", "2", "3", "4", "5", "6", "7", "8", "9">>
Text(t) == IF t = "" THEN <<>> ELSE <<t>>

\* strconv.FormatFloat(v, 'f', -1, 64) of a whole number
FormatFloat(v) ==
    LET RECURSIVE Digits(_)
        Digits(n) == IF n < 10 THEN <<DigitChars[n + 1]>>
                     ELSE Digits(n \div 10) \o <<DigitChars[(n % 10) + 1]>>
    IN  IF v < 0 THEN <<"-">> \o Digits(0 - v) ELSE Digits(v)

\* strconv.ParseFloat(s, 64): [ok, val]
ParseFloat(str) ==
    LET IsDigit(c) == \E d \in 1..10 : DigitChars[d] = c
        DigitValue(c) == (CHOOSE d \in 1..10 : DigitChars[d] = c) - 1
        RECURSIVE Number(_)
        Number(ds) == IF ds = <<>> THEN 0
                      ELSE Number(SubSeq(ds, 1, Len(ds) - 1)) * 10 + DigitValue(ds[Len(ds)])
        neg == str # <<>> /\ str[1] = "-"
        body == IF neg THEN Tail(str) ELSE str
    IN  IF body = <<>> \/ \E i \in 1..Len(body) : ~IsDigit(body[i])
        THEN [ok |-> FALSE, val |-> 0]
        ELSE [ok |-> TRUE, val |-> IF neg THEN 0 - Number(body) ELSE Number(body)]

\* an RSR field of a template: the id of a dynamic field, or a static value
Rsr(id) == [Id |-> id, static |-> FALSE]
Static(v) == [Id |-> v, static |-> TRUE]

\* lines 143-274: the value of one RSR field; dta is
\* utils.NewTAFromAccountKey(acnt.ID), empty for a nil account
FieldValue(rsrFld, acnt, action) ==
    IF rsrFld.static THEN Text(rsrFld.Id)
    ELSE CASE rsrFld.Id = "Tenant" -> Text(IF acnt.nil THEN "" ELSE "cgrates.org")
           [] rsrFld.Id = "Account" -> Text(IF acnt.nil THEN "" ELSE "1001")
           [] rsrFld.Id = "ActionType" -> Text(action.ActionType)
           [] rsrFld.Id = "ActionValue" -> FormatFloat(action.Balance.Value)
           [] rsrFld.Id = "BalanceType" -> Text(action.Balance.Type)
           [] rsrFld.Id = "BalanceID" -> Text(action.Balance.ID)
           [] rsrFld.Id = "BalanceValue" -> FormatFloat(action.balanceValue)
           [] OTHER -> <<>>

\* lines 142-277
RECURSIVE parseTemplateValue(_, _, _)
parseTemplateValue(rsrFlds, acnt, action) ==
    IF rsrFlds = <<>> THEN <<>>
    ELSE FieldValue(Head(rsrFlds), acnt, action) \o parseTemplateValue(Tail(rsrFlds), acnt, action)

\* the fields of a CDR a template can set by name: Cost is a float64, the
\* others are strings
CdrFields == {"ToR", "OriginHost", "RequestType", "Tenant", "Account", "Subject", "Cost"}

\* lines 280-288
defaultTemplate ==
    [k \in CdrFields |->
       CASE k = "ToR" -> <<Rsr("BalanceType")>>
         [] k = "OriginHost" -> <<Static("127.0.0.1")>>
         [] k = "RequestType" -> <<Static(utils.META_PREPAID)>>
         [] k = "Tenant" -> <<Rsr("Tenant")>>
         [] k = "Account" -> <<Rsr("Account")>>
         [] k = "Subject" -> <<Rsr("Account")>>
         [] k = "Cost" -> <<Rsr("ActionValue")>>]

\* what a.ExtraParameters can hold: nothing, text that is no JSON object, a
\* field whose RSR rule does not compile, or overrides of the template
ExtraParameterKinds == {"", "{", "{\"Subject\":\"~bad\"}",
                        "{\"Cost\":\"BalanceValue\"}",
                        "{\"Subject\":\"^any\",\"Custom\":\"ActionType;BalanceID\"}"}

\* json.Unmarshal of a.ExtraParameters and utils.ParseRSRFields of its fields
\* (lines 293-301): [err, fields]
ParseOverrides(extra) ==
    CASE extra = "{" -> [err |-> ErrJSON, fields |-> <<>>]
      [] extra = "{\"Subject\":\"~bad\"}" -> [err |-> "invalid RSR rule", fields |-> <<>>]
      [] extra = "{\"Cost\":\"BalanceValue\"}" ->
            [err |-> NoErr, fields |-> [k \in {"Cost"} |-> <<Rsr("BalanceValue")>>]]
      [] OTHER ->
            [err |-> NoErr,
             fields |-> [k \in {"Subject", "Custom"} |->
                           IF k = "Subject" THEN <<Static("any")>>
                           ELSE <<Rsr("ActionType"), Rsr("BalanceID")>>]]

\* lines 296-297: defaultTemplate[field] = the override
Overridden(fields) ==
    [k \in DOMAIN defaultTemplate \cup DOMAIN fields |->
       IF k \in DOMAIN fields THEN fields[k] ELSE defaultTemplate[k]]

\* lines 307-310: the siblings a CDR is made for
NoTopupReset == {ActionTypes.DEBIT, ActionTypes.DEBIT_RESET, ActionTypes.TOPUP}
LoggedTypes == {ActionTypes.DEBIT, ActionTypes.DEBIT_RESET, ActionTypes.TOPUP, ActionTypes.TOPUP_RESET}
Logged(action) == action.ActionType \in LoggedTypes /\ ~action.Balance.nil

\* lines 311-334: the CDR of one sibling
NewCDR(template, acc, action) ==
    LET val(k) == parseTemplateValue(template[k], acc, action)
        str(k) == IF k \in DOMAIN template THEN val(k) ELSE <<>>
        cost == IF "Cost" \in DOMAIN template THEN ParseFloat(val("Cost"))
                ELSE [ok |-> FALSE, val |-> 0]
    IN  [RunID |-> action.ActionType, Source |-> ActionTypes.CDRLOG, Usage |-> 1,
         ToR |-> str("ToR"), OriginHost |-> str("OriginHost"),
         RequestType |-> str("RequestType"), Tenant |-> str("Tenant"),
         Account |-> str("Account"), Subject |-> str("Subject"),
         Cost |-> IF cost.ok THEN cost.val ELSE 0,
         ExtraFields |-> [k \in DOMAIN template \ CdrFields |-> val(k)]]

\* lines 305-342: the CDRs of the siblings, in their order
RECURSIVE LogCDRs(_, _, _)
LogCDRs(template, acc, actions) ==
    IF actions = <<>> THEN <<>>
    ELSE (IF Logged(Head(actions)) THEN <<NewCDR(template, acc, Head(actions))>> ELSE <<>>)
         \o LogCDRs(template, acc, Tail(actions))

\* lines 279-346; failAt is the call of cdrStorage.SetCDR that fails, 0 for none
cdrLogAction ==
    /\ ran = ""
    /\ ran' = ActionTypes.CDRLOG
    /\ LET over == IF act.ExtraParameters # "" THEN ParseOverrides(act.ExtraParameters)
                   ELSE [err |-> NoErr, fields |-> <<>>]
           cdrs == LogCDRs(Overridden(over.fields), ub, acs)
       IN  IF over.err # NoErr
           THEN /\ herr' = over.err
                /\ UNCHANGED <<act, cdrDB>>
           ELSE \E failAt \in 0..(IF cdrStorage THEN Len(cdrs) ELSE 0) :
                  IF failAt = 0
                  THEN /\ herr' = NoErr
                       /\ act' = [act EXCEPT !.ExpirationString = cdrs]
                       /\ cdrDB' = IF cdrStorage THEN cdrDB \o cdrs ELSE cdrDB
                  ELSE /\ herr' = ErrIO
                       /\ act' = act
                       /\ cdrDB' = cdrDB \o SubSeq(cdrs, 1, failAt - 1)
    /\ UNCHANGED <<ub, ub0, sq, destDB, revDB, published, acs, next, cdrStorage>>
    /\ UNCHANGED <<raVars, sortVars, cloneVars, callVars, nmVars>>

\* the siblings: the action's filter (nil included) and the balanceValue its
\* execution left on it
Sibling(typ, hasBalance, v, bv) ==
    [ActionType |-> typ,
     Balance |-> [Filter(utils.MONETARY, "b1", v, ZeroTime) EXCEPT !.nil = ~hasBalance],
     balanceValue |-> bv]

SiblingKinds ==
    { Sibling(ActionTypes.DEBIT, TRUE, 5, 5), Sibling(ActionTypes.TOPUP, TRUE, 12, 0 - 12),
      Sibling(ActionTypes.TOPUP_RESET, TRUE, 5, 0 - 5), Sibling(ActionTypes.DEBIT_RESET, FALSE, 0, 0),
      Sibling(ActionTypes.LOG, TRUE, 5, 0), Sibling(ActionTypes.CDRLOG, FALSE, 0, 0) }

SiblingLists == UNION {[1..n -> SiblingKinds] : n \in 0..MaxSiblings}

CdrIdle ==
    /\ acs = <<>>
    /\ next = 1
    /\ cdrStorage = FALSE
    /\ cdrDB = <<>>

CdrInit ==
    /\ ub \in {NilAccount,
               Account(<<>>, FALSE, FALSE, [nil |-> TRUE, value |-> 0], <<>>)}
    /\ ub0 = ub
    /\ act \in {[NoAction EXCEPT !.ActionType = ActionTypes.CDRLOG, !.ExtraParameters = x] :
                  x \in ExtraParameterKinds}
    /\ sq = NilQueue
    /\ destDB = [d \in DestIds |-> [has |-> FALSE, prefixes |-> {}]]
    /\ revDB = {}
    /\ published = {}
    /\ herr = NoErr
    /\ ran = ""
    /\ acs \in SiblingLists
    /\ next = 1
    /\ cdrStorage \in BOOLEAN
    /\ cdrDB = <<>>

\* ---- an Actions list executed in order on an account, cdrlog last

\* the driver calls the handler of the next action of the list; the handler
\* leaves its balanceValue on the action
ExecuteSibling ==
    /\ ran = ""
    /\ next <= Len(acs)
    /\ LET r == getActionFunc(acs[next].ActionType, ub, acs[next]) IN
         /\ ub' = r.ub
         /\ herr' = r.err
         /\ acs' = [acs EXCEPT ![next] = r.a]
    /\ next' = next + 1
    /\ UNCHANGED <<ub0, act, sq, destDB, revDB, published, ran, cdrStorage, cdrDB>>
    /\ UNCHANGED <<raVars, sortVars, cloneVars, callVars, nmVars>>

\* the accounts and lists: a monetary bucket holding 10 or freshly zeroed,
\* top-ups, debits and resets of it
RunInit ==
    LET Buckets == {<<Bal("u1", "b1", 10, ZeroTime, {})>>, <<ZeroBalance>>}
        Kinds ==
          {[Sibling(t, TRUE, v, 0) EXCEPT !.Balance.ID = id] :
             t \in {ActionTypes.TOPUP, ActionTypes.DEBIT}, v \in {5, 12}, id \in {"", "b1"}}
          \cup {Sibling(t, TRUE, 5, 0) :
                  t \in {ActionTypes.TOPUP_RESET, ActionTypes.DEBIT_RESET, ActionTypes.RESET_ACCOUNT}}
    IN  /\ \E chain \in Buckets :
             ub = Account([t \in {utils.MONETARY} |-> chain], FALSE, FALSE,
                          [nil |-> TRUE, value |-> 0], <<>>)
        /\ ub0 = ub
        /\ act \in {[NoAction EXCEPT !.ActionType = ActionTypes.CDRLOG, !.ExtraParameters = x] :
                      x \in {"", "{\"Cost\":\"BalanceValue\"}"}}
        /\ sq = NilQueue
        /\ destDB = [d \in DestIds |-> [has |-> FALSE, prefixes |-> {}]]
        /\ revDB = {}
        /\ published = {}
        /\ herr = NoErr
        /\ ran = ""
        /\ acs \in UNION {[1..n -> Kinds] : n \in 0..MaxSiblings}
        /\ next = 1
        /\ cdrStorage = TRUE
        /\ cdrDB = <<>>

\* ========================================================================
\* Actions.Clone (lines 901-917)
\* ========================================================================

\* the longest Actions list that is cloned
MaxActs == 2

\* A pointer is the address of an object of the heap, or Nil.  The objects of
\* the list named o are at <<o, i, part>>: the i-th Action, its BalanceFilter,
\* the bools its Disabled and Blocker point to.
Nil == <<>>
Flags == {"Disabled", "Blocker"}

\* the values an Actions list holds, read through its pointers; an optional
\* flag is absent, explicit false or explicit true
View(h, acts) ==
    [i \in 1..Len(acts) |->
       LET a == h[acts[i]]
           Flag(ptr) == IF ptr = Nil THEN "absent" ELSE IF h[ptr] THEN "true" ELSE "false"
       IN
         [ActionType |-> a.ActionType, balanceValue |-> a.balanceValue,
          Balance |-> IF a.Balance = Nil
                      THEN [nil |-> TRUE, Value |-> 0, Disabled |-> "absent", Blocker |-> "absent"]
                      ELSE [nil |-> FALSE, Value |-> h[a.Balance].Value,
                            Disabled |-> Flag(h[a.Balance].Disabled),
                            Blocker |-> Flag(h[a.Balance].Blocker)]]]

\* the objects of a list named o that holds the values l, each object new
Objects(o, l) ==
    LET withBalance == {i \in 1..Len(l) : ~l[i].Balance.nil}
        addrs == {<<o, i, "Action">> : i \in 1..Len(l)}
                 \cup {<<o, i, "Balance">> : i \in withBalance}
                 \cup UNION {{<<o, i, f>> : i \in {j \in withBalance : l[j].Balance[f] # "absent"}} :
                               f \in Flags}
        ptr(i, f) == IF l[i].Balance[f] = "absent" THEN Nil ELSE <<o, i, f>>
    IN  [a \in addrs |->
           CASE a[3] = "Action" ->
                  [ActionType |-> l[a[2]].ActionType, balanceValue |-> l[a[2]].balanceValue,
                   Balance |-> IF l[a[2]].Balance.nil THEN Nil ELSE <<o, a[2], "Balance">>]
             [] a[3] = "Balance" ->
                  [Value |-> l[a[2]].Balance.Value,
                   Disabled |-> ptr(a[2], "Disabled"), Blocker |-> ptr(a[2], "Blocker")]
             [] OTHER -> l[a[2]].Balance[a[3]] = "true"]

\* utils.Clone(apl, &cln): a copy through an encoding that leaves out the
\* unexported balanceValue and what has the zero value, so that a pointer to
\* false comes back as a nil pointer
GobClone(h, acts) ==
    LET naive(v) == [v EXCEPT !.balanceValue = 0,
                              !.Balance.Disabled = IF @ = "false" THEN "absent" ELSE @,
                              !.Balance.Blocker = IF @ = "false" THEN "absent" ELSE @]
    IN  Objects("cln", [i \in 1..Len(acts) |-> naive(View(h, acts)[i])])

\* lines 908 and 911: the flag is set and false
FixesTrue(h, ptr) == ptr # Nil /\ h[ptr]
NeedsFix(h, ptr) == ptr # Nil /\ ~h[ptr]

\* lines 909 and 912: utils.BoolPointer(*ptr), a pointer to a new bool
SharePointer(ptr, new) == ptr
BoolPointer(ptr, new) == new

\* lines 901-917: the heap after the clone, whose actions are at <<"cln", i, "Action">>
ActionsClone(h, acts) ==
    LET filter(i) == h[acts[i]].Balance
        fixes == {x \in (1..Len(acts)) \X Flags :
                    filter(x[1]) # Nil /\ NeedsFix(h, h[filter(x[1])][x[2]])}
        fixed(i, f, old) ==
            IF <<i, f>> \in fixes THEN BoolPointer(h[filter(i)][f], <<"cln", i, f>>) ELSE old
        h1 == h @@ GobClone(h, acts)
    IN  [a \in DOMAIN h1 \cup {<<"cln", x[1], x[2]>> : x \in fixes} |->
           IF a[1] = "cln" /\ <<a[2], a[3]>> \in fixes THEN h[h[filter(a[2])][a[3]]]
           ELSE IF a[1] = "cln" /\ a[3] = "Balance"
           THEN [h1[a] EXCEPT !.Disabled = fixed(a[2], "Disabled", @),
                              !.Blocker = fixed(a[2], "Blocker", @)]
           ELSE h1[a]]

\* apl.Clone() of a list the caller built; utils.Clone may fail
Clone ==
    /\ orig = <<>> /\ cln.apl = <<>>
    /\ \E l \in UNION {[1..n ->
              {[ActionType |-> ActionTypes.TOPUP, balanceValue |-> bv,
                Balance |-> [nil |-> FALSE, Value |-> 5, Disabled |-> d, Blocker |-> b]] :
                 bv \in {0, -5}, d \in {"absent", "false", "true"}, b \in {"absent", "false", "true"}}
              \cup {[ActionType |-> ActionTypes.LOG, balanceValue |-> 0,
                     Balance |-> [nil |-> TRUE, Value |-> 0, Disabled |-> "absent",
                                  Blocker |-> "absent"]]}] : n \in 1..MaxActs} :
         LET h == Objects("apl", l)
             acts == [i \in 1..Len(l) |-> <<"apl", i, "Action">>]
         IN  /\ orig' = acts
             /\ \/ /\ heap' = ActionsClone(h, acts)
                   /\ cln' = [err |-> NoErr, apl |-> [i \in 1..Len(l) |-> <<"cln", i, "Action">>]]
                \/ /\ heap' = h
                   /\ cln' = [err |-> ErrIO, apl |-> <<>>]
    /\ UNCHANGED wrote
    /\ UNCHANGED <<raVars, sortVars, hVars, cdrVars, callVars, nmVars>>

\* a caller changes one field of one action through the original list or
\* through the clone
SetField ==
    /\ cln.apl # <<>> /\ wrote = ""
    /\ \E side \in {"orig", "cln"} :
         LET acts == IF side = "orig" THEN orig ELSE cln.apl IN
         \E i \in 1..Len(acts) :
           LET a == acts[i]
               f == heap[a].Balance
           IN  /\ wrote' = side
               /\ \/ heap' = [heap EXCEPT ![a].balanceValue = @ + 1]
                  \/ heap' = [heap EXCEPT ![a].ActionType = ActionTypes.DEBIT]
                  \/ f # Nil /\ heap' = [heap EXCEPT ![a].Balance = Nil]
                  \/ f # Nil /\ heap' = [heap EXCEPT ![f].Value = @ + 1]
                  \/ /\ f # Nil
                     /\ \E flag \in Flags :
                          \/ heap[f][flag] # Nil
                             /\ heap' = [heap EXCEPT ![heap[f][flag]] = ~@]
                          \/ heap[f][flag] # Nil
                             /\ heap' = [heap EXCEPT ![f][flag] = Nil]
    /\ UNCHANGED <<orig, cln>>
    /\ UNCHANGED <<raVars, sortVars, hVars, cdrVars, callVars, nmVars>>

\* ========================================================================
\* callUrl, callUrlAsync, mailAsync (lines 497-585), cgrRPCAction (777-838)
\* ========================================================================

\* call_url: the post is made before the handler returns
callUrl ==
    /\ req.typ = ""
    /\ \E hasUb \in BOOLEAN, hasSq \in BOOLEAN, marshalErr \in {NoErr, ErrJSON}, postErr \in {NoErr, ErrIO} :
         /\ req' = [req EXCEPT !.typ = ActionTypes.CALL_URL, !.ub = hasUb, !.sq = hasSq,
                                 !.fail = marshalErr]
         /\ IF marshalErr # NoErr
            THEN rerr' = marshalErr /\ remote' = remote
            ELSE /\ remote' = Append(remote, [kind |-> "post", method |-> (IF hasSq THEN "sq" ELSE IF hasUb THEN "ub" ELSE "null"),
                                               err |-> postErr])
                 /\ rerr' = postErr
    /\ UNCHANGED <<task, slept, warned>>
    /\ UNCHANGED <<raVars, sortVars, hVars, cdrVars, cloneVars, nmVars>>

callUrlBlocking ==
    /\ req.typ = ""
    /\ \E hasUb \in BOOLEAN, hasSq \in BOOLEAN, postErr \in {NoErr, ErrIO} :
         /\ req' = [req EXCEPT !.typ = ActionTypes.CALL_URL_ASYNC, !.ub = hasUb, !.sq = hasSq]
         /\ remote' = Append(remote, [kind |-> "post", method |-> (IF hasSq THEN "sq" ELSE IF hasUb THEN "ub" ELSE "null"), err |-> postErr])
         /\ rerr' = postErr
    /\ UNCHANGED <<task, slept, warned>>
    /\ UNCHANGED <<raVars, sortVars, hVars, cdrVars, cloneVars, nmVars>>

\* call_url_async: the post is left to a goroutine
callUrlAsync ==
    /\ req.typ = ""
    /\ \E hasUb \in BOOLEAN, hasSq \in BOOLEAN, marshalErr \in {NoErr, ErrJSON} :
         /\ req' = [req EXCEPT !.typ = ActionTypes.CALL_URL_ASYNC, !.ub = hasUb, !.sq = hasSq,
                                 !.fail = marshalErr]
         /\ IF marshalErr # NoErr
            THEN rerr' = marshalErr /\ task' = task
            ELSE rerr' = NoErr /\ task' = [pc |-> "post", i |-> 0]
    /\ UNCHANGED <<remote, slept, warned>>
    /\ UNCHANGED <<raVars, sortVars, hVars, cdrVars, cloneVars, nmVars>>

\* lines 536-538: the goroutine's post
Post ==
    /\ task.pc = "post"
    /\ \E postErr \in {NoErr, ErrIO} :
         remote' = Append(remote, [kind |-> "post", method |-> (IF req.sq THEN "sq" ELSE IF req.ub THEN "ub" ELSE "null"), err |-> postErr])
    /\ task' = [pc |-> "done", i |-> 0]
    /\ UNCHANGED <<req, rerr, slept, warned>>
    /\ UNCHANGED <<raVars, sortVars, hVars, cdrVars, cloneVars, nmVars>>

\* mail_async: strings.Split gives at least one parameter, so line 547 is
\* never reached; the message is built and the sending goroutine launched
mailAsync ==
    /\ req.typ = ""
    /\ \E hasUb \in BOOLEAN, hasSq \in BOOLEAN, marshalErr \in {NoErr, ErrJSON},
          params \in {<<"">>, <<"a@b|c@d">>, <<"a@b", "x">>} :
         /\ ~hasUb => marshalErr = NoErr
         /\ req' = [req EXCEPT !.typ = ActionTypes.MAIL_ASYNC, !.ub = hasUb, !.sq = hasSq,
                                 !.fail = marshalErr, !.method = params[1]]
         /\ IF Len(params) = 0 THEN rerr' = "Unconfigured parameters for mail action" /\ task' = task
            ELSE IF marshalErr # NoErr THEN rerr' = marshalErr /\ task' = task
            ELSE rerr' = NoErr /\ task' = [pc |-> "mail", i |-> 0]
    /\ UNCHANGED <<remote, slept, warned>>
    /\ UNCHANGED <<raVars, sortVars, hVars, cdrVars, cloneVars, nmVars>>

SendMailNoBreak ==
    /\ task.pc = "mail"
    /\ \E err \in {NoErr, ErrIO} :
         remote' = Append(remote, [kind |-> "mail", method |-> req.method, err |-> err])
    /\ slept' = Append(slept, task.i)
    /\ task' = IF task.i + 1 < 5 THEN [task EXCEPT !.i = @ + 1] ELSE [pc |-> "done", i |-> 0]
    /\ UNCHANGED <<req, rerr, warned>>
    /\ UNCHANGED <<raVars, sortVars, hVars, cdrVars, cloneVars, nmVars>>

SendMailSleepsNext ==
    /\ task.pc = "mail"
    /\ \E err \in {NoErr, ErrIO} :
         /\ remote' = Append(remote, [kind |-> "mail", method |-> req.method, err |-> err])
         /\ IF err = NoErr \/ task.i = 4
            THEN task' = [pc |-> "done", i |-> 0] /\ slept' = slept
            ELSE slept' = Append(slept, task.i + 1) /\ task' = [task EXCEPT !.i = @ + 1]
    /\ UNCHANGED <<req, rerr, warned>>
    /\ UNCHANGED <<raVars, sortVars, hVars, cdrVars, cloneVars, nmVars>>

\* lines 570-582: one round of the goroutine's loop
SendMail ==
    /\ task.pc = "mail"
    /\ \E err \in {NoErr, ErrIO} :
         /\ remote' = Append(remote, [kind |-> "mail", method |-> req.method, err |-> err])
         /\ IF err = NoErr
            THEN task' = [pc |-> "done", i |-> 0] /\ UNCHANGED <<slept, warned>>
            ELSE IF task.i = 4
            THEN task' = [pc |-> "done", i |-> 0] /\ warned' = (req.ub \/ req.sq) /\ slept' = slept
            ELSE /\ slept' = Append(slept, task.i)
                 /\ task' = IF task.i + 1 < 5 THEN [task EXCEPT !.i = @ + 1] ELSE [pc |-> "done", i |-> 0]
                 /\ warned' = warned
    /\ UNCHANGED <<req, rerr>>
    /\ UNCHANGED <<raVars, sortVars, hVars, cdrVars, cloneVars, nmVars>>

\* cgr_rpc: the template, the request, the method's shapes, the client, the
\* decoding of Params (whose error line 818 drops), then the call
cgrRPCAction ==
    /\ req.typ = ""
    /\ \E fail \in {NoErr, "template: parse", "template: execute", ErrJSON,
                     "rpc params: method not registered", "dial"},
          internal \in BOOLEAN, decodeErr \in BOOLEAN, inNil \in BOOLEAN, async \in BOOLEAN,
          callErr \in {NoErr, ErrIO} :
         /\ fail = "dial" => ~internal
         /\ inNil => decodeErr
         /\ req' = [req EXCEPT !.typ = ActionTypes.CGR_RPC, !.fail = fail,
                                 !.method = "Responder.Status", !.internal = internal,
                                 !.decodeErr = decodeErr, !.inNil = inNil, !.async = async]
         /\ IF fail # NoErr THEN rerr' = fail /\ UNCHANGED <<remote, task>>
            ELSE IF inNil THEN rerr' = utils.ErrParserError /\ UNCHANGED <<remote, task>>
            ELSE IF ~async
            THEN /\ remote' = Append(remote, [kind |-> "rpc", method |-> "Responder.Status",
                                               err |-> callErr])
                 /\ rerr' = callErr
                 /\ task' = task
            ELSE rerr' = NoErr /\ task' = [pc |-> "rpc", i |-> 0] /\ remote' = remote
    /\ UNCHANGED <<slept, warned>>
    /\ UNCHANGED <<raVars, sortVars, hVars, cdrVars, cloneVars, nmVars>>

\* lines 833-836: the goroutine's call
Call ==
    /\ task.pc = "rpc"
    /\ \E callErr \in {NoErr, ErrIO} :
         remote' = Append(remote, [kind |-> "rpc", method |-> req.method, err |-> callErr])
    /\ task' = [pc |-> "done", i |-> 0]
    /\ UNCHANGED <<req, rerr, slept, warned>>
    /\ UNCHANGED <<raVars, sortVars, hVars, cdrVars, cloneVars, nmVars>>

\* ========================================================================
\* DispatcherService: the SessionSv1 methods
\* ========================================================================

\* the longest APIMethods list of an authorization reply
MaxMethods == 2

\* utils.ParseStringMap(apiMethods).HasKey(m): m is one of the names listed
HasKey(apiMethods, m) == \E k \in 1..Len(apiMethods) : apiMethods[k] = m

\* SessionSv1Ping: no authorization, the call is passed on when connected
SessionSv1Ping ==
    /\ req.typ = ""
    /\ \E connected \in BOOLEAN, callErr \in {NoErr, ErrIO} :
         /\ req' = [req EXCEPT !.typ = utils.SessionSv1Ping, !.connected = connected]
         /\ IF ~connected
            THEN rerr' = utils.ErrNotConnected /\ remote' = remote
            ELSE /\ remote' = Append(remote, [kind |-> "sessionS", method |-> utils.SessionSv1Ping,
                                               err |-> callErr])
                 /\ rerr' = callErr
    /\ UNCHANGED <<task, slept, warned>>
    /\ UNCHANGED <<raVars, sortVars, hVars, cdrVars, cloneVars, nmVars>>

SessionSv1Unlisted(m) ==
    /\ req.typ = ""
    /\ \E apiMethods \in UNION {[1..n -> {utils.SessionSv1ProcessCDR, utils.SessionSv1ProcessEvent}] :
                                  n \in 0..MaxMethods},
          callErr \in {NoErr, ErrIO} :
         /\ req' = [req EXCEPT !.typ = m, !.connected = TRUE, !.hasField = TRUE,
                               !.apiMethods = apiMethods]
         /\ remote' = <<[kind |-> "authorizeEvent", method |-> m, err |-> NoErr],
                        [kind |-> "sessionS", method |-> m, err |-> callErr]>>
         /\ rerr' = callErr
    /\ UNCHANGED <<task, slept, warned>>
    /\ UNCHANGED <<raVars, sortVars, hVars, cdrVars, cloneVars, nmVars>>

\* the six methods that authorize: each tests the connection, has the event
\* authorized, reads APIMethods from the reply, looks its own name m up in it
\* and only then calls the session service with m
SessionSv1(m) ==
    /\ req.typ = ""
    /\ \E connected \in BOOLEAN, authErr \in {NoErr, ErrIO}, hasField \in BOOLEAN,
          apiMethods \in UNION {[1..n -> {utils.SessionSv1AuthorizeEventWithDigest,
                                          utils.SessionSv1InitiateSessionWithDigest,
                                          utils.SessionSv1ProcessCDR,
                                          utils.SessionSv1ProcessEvent,
                                          utils.SessionSv1TerminateSession,
                                          utils.SessionSv1UpdateSession,
                                          utils.SessionSv1Ping}] : n \in 0..MaxMethods},
          callErr \in {NoErr, ErrIO} :
         LET authorized == [kind |-> "authorizeEvent", method |-> m, err |-> authErr] IN
         /\ req' = [req EXCEPT !.typ = m, !.connected = connected, !.authErr = authErr,
                               !.hasField = hasField, !.apiMethods = apiMethods]
         /\ IF ~connected THEN rerr' = utils.ErrNotConnected /\ remote' = remote
            ELSE IF authErr # NoErr THEN rerr' = authErr /\ remote' = <<authorized>>
            ELSE IF ~hasField THEN rerr' = utils.ErrNotFound /\ remote' = <<authorized>>
            ELSE IF ~HasKey(apiMethods, m)
            THEN rerr' = utils.ErrUnauthorizedApi /\ remote' = <<authorized>>
            ELSE /\ remote' = <<authorized, [kind |-> "sessionS", method |-> m, err |-> callErr]>>
                 /\ rerr' = callErr
    /\ UNCHANGED <<task, slept, warned>>
    /\ UNCHANGED <<raVars, sortVars, hVars, cdrVars, cloneVars, nmVars>>

\* ------------------------------------------------------------------------
\* NavigableMap.FieldAsInterface, src/engine/navigablemap.go lines 35-70
\* ------------------------------------------------------------------------

MaxPath == 3

\* the values of a map[string]interface{} with keys "a" and "b" and maps nested
\* up to depth d: a string, a map of another type than map[string]interface{}
\* (a typed map, as a NavigableMap is), or a nested map[string]interface{}
NilValue == [kind |-> "nil", mp |-> <<>>]
RECURSIVE NavigableMaps(_)
NavigableMaps(d) ==
    LET elmnts == {[kind |-> "string", mp |-> <<>>], [kind |-> "typed", mp |-> <<>>]}
                    \cup IF d = 0 THEN {}
                         ELSE {[kind |-> "map", mp |-> mp] : mp \in NavigableMaps(d - 1)}
    IN  UNION {[ks -> elmnts] : ks \in SUBSET {"a", "b"}}

\* lines 46-67: the loop over the path, at its element i (from 1) in lastMp
RECURSIVE FieldPathLoop(_, _, _)
FieldPathLoop(lastMp, path, i) ==
    IF i > Len(path) THEN [val |-> NilValue, err |-> "end of function"]
    ELSE LET spath == path[i] IN
         IF i = Len(path)
         THEN IF spath \in DOMAIN lastMp
              THEN [val |-> lastMp[spath], err |-> NoErr]
              ELSE [val |-> NilValue, err |-> utils.ErrNotFound]
         ELSE IF spath \notin DOMAIN lastMp
              THEN [val |-> NilValue, err |-> "no map at path"]
              ELSE IF lastMp[spath].kind # "map"
                   THEN [val |-> NilValue, err |-> "cannot cast field"]
                   ELSE FieldPathLoop(lastMp[spath].mp, path, i + 1)

FieldAsInterfaceUnchecked(nMap, path) == FieldPathLoop(nMap, path, 1)

\* lines 39-70
FieldAsInterface(nMap, path) ==
    IF Len(path) = 0 THEN [val |-> NilValue, err |-> "empty field path"]
    ELSE FieldPathLoop(nMap, path, 1)

\* a caller looks a path up in a navigable map
FieldAsInterfaceCall ==
    /\ fld.err = ""
    /\ \E nMap \in NavigableMaps(MaxPath - 2) :
       \E n \in 0..MaxPath : \E path \in [1..n -> {"a", "b"}] :
         /\ nM' = nMap
         /\ fldPath' = path
         /\ fld' = FieldAsInterface(nMap, path)
    /\ UNCHANGED <<raVars, sortVars, hVars, cdrVars, cloneVars, callVars>>

\* no Clone, no handler and no session method was called yet
NoCall ==
    /\ heap = <<>>
    /\ orig = <<>>
    /\ cln = [err |-> NoErr, apl |-> <<>>]
    /\ wrote = ""
    /\ req = [typ |-> "", ub |-> FALSE, sq |-> FALSE, fail |-> NoErr, method |-> "",
               internal |-> FALSE, decodeErr |-> FALSE, inNil |-> FALSE, async |-> FALSE,
               connected |-> FALSE, authErr |-> NoErr, hasField |-> FALSE, apiMethods |-> <<>>]
    /\ rerr = ""
    /\ task = [pc |-> "none", i |-> 0]
    /\ remote = <<>>
    /\ slept = <<>>
    /\ warned = FALSE
    /\ nM = <<>>
    /\ fldPath = <<>>
    /\ fld = [val |-> NilValue, err |-> ""]

\* ========================================================================
\* Specifications
\* ========================================================================

\* two executions of remove_account, one per account, interleaved
RANext ==
    \E self \in Accts :
        \/ Start(self)
        \/ RemoveAccount(self)
        \/ Guard(self)
        \/ GetAccountActionPlans(self)
        \/ GetActionPlan(self)
        \/ SetActionPlan(self)
        \/ CacheActionPlans(self)
        \/ RemAccountActionPlans(self)
        \/ CacheAccountActionPlans(self)
        \/ Unguard(self)
        \/ CallAgain(self)
RAInit == RAStores /\ SortIdle /\ HIdle /\ CdrIdle /\ NoCall
SpecRA == RAInit /\ [][RANext]_vars

\* one Actions list, sorted once
InitSort == SortInit /\ RAIdle /\ HIdle /\ CdrIdle /\ NoCall
SpecSort == InitSort /\ [][Sort]_vars

\* every handler that needs an account, run once on an account or on nil
NextHandlers ==
    \/ \E typ \in AccountActionTypes : Execute(typ)
    \/ publishAccount
    \/ setddestinations
InitHandlers == HInit /\ RAIdle /\ SortIdle /\ CdrIdle /\ NoCall
SpecHandlers == InitHandlers /\ [][NextHandlers]_vars

\* the handlers that work on the balance chains directly
NextBalances ==
    \E typ \in {ActionTypes.REMOVE_BALANCE, ActionTypes.SetExpiry,
                ActionTypes.TRANSFER_MONETARY_DEFAULT} : Execute(typ)
InitBalances == BInit /\ RAIdle /\ SortIdle /\ CdrIdle /\ NoCall
SpecBalances == InitBalances /\ [][NextBalances]_vars

\* cdrlog, run once on an Actions list
InitCdr == CdrInit /\ RAIdle /\ SortIdle /\ NoCall
SpecCdr == InitCdr /\ [][cdrLogAction]_vars

\* an Actions list executed in order, then logged by cdrlog
InitRun == RunInit /\ RAIdle /\ SortIdle /\ NoCall
NextRun ==
    \/ ExecuteSibling
    \/ next > Len(acs) /\ cdrLogAction
SpecRun == InitRun /\ [][NextRun]_vars

\* an Actions list cloned, then a field written through either list
InitCalls == NoCall /\ RAIdle /\ SortIdle /\ HIdle /\ CdrIdle
SpecClone == InitCalls /\ [][Clone \/ SetField]_vars

\* one notification handler called, and the goroutine it launched
SpecNotify ==
    InitCalls /\ [][callUrl \/ callUrlAsync \/ Post \/ mailAsync \/ SendMail
                     \/ cgrRPCAction \/ Call]_vars

\* one SessionSv1 method of the dispatcher called
\* lookups in navigable maps
SpecNavigableMap == InitCalls /\ [][FieldAsInterfaceCall]_vars

SpecDispatcher ==
    InitCalls /\ [][\/ SessionSv1Ping
                    \/ \E m \in {utils.SessionSv1AuthorizeEventWithDigest,
                                 utils.SessionSv1InitiateSessionWithDigest,
                                 utils.SessionSv1ProcessCDR,
                                 utils.SessionSv1ProcessEvent,
                                 utils.SessionSv1TerminateSession,
                                 utils.SessionSv1UpdateSession} : SessionSv1(m)]_vars

\* ------------------------------------------------------------------------
\* Claims about remove_account, checked under SpecRA

\* C1: when the latest executions of remove_account for both accounts have
\* returned success, no action plan's stored membership set contains either
\* account, whatever the interleaving of their steps (no lost update).
C1_NoLostUpdate ==
    (\A a \in Accts : pc[a] = "done" /\ ret[a] = NoErr)
        => \A p \in Plans : planDB[p] \cap Accts = {}

\* both executions succeeded after each persisted the same shared plan
C1_Witness ==
    /\ \A a \in Accts : pc[a] = "done" /\ ret[a] = NoErr /\ call[a] = "first"
    /\ persisted["acc1"] \cap persisted["acc2"] # {}

\* C2: an execution that is at a read or write of an action plan, of the
\* membership index or of their cache entries holds the action-plan lock, and
\* an execution that has returned holds no lock, on the error paths too.
C2_LockHeldAndReleased ==
    \A a \in Accts :
        /\ pc[a] \in {"getAAP", "getAP", "setAP", "cacheAP", "remAAP", "cacheAAP"}
              => locks[utils.ACTION_PLAN_PREFIX] = a
        /\ pc[a] = "done" => \A n \in LockNames : locks[n] # a

\* one execution left the critical section by an error and has returned,
\* the other one is inside it, holding the lock
C2_Witness ==
    /\ pc["acc1"] = "done" /\ gerr["acc1"] = ErrIO
    /\ pc["acc2"] = "setAP" /\ locks[utils.ACTION_PLAN_PREFIX] = "acc2"

\* C6: a second call whose index lookup says not found persists no action
\* plan and does not fail with not found: it ends with success unless a
\* store call fails for another reason.
C6_SecondCallToleratesNotFound ==
    \A a \in Accts :
        (call[a] = "second" /\ lookupNF[a]) =>
            /\ persisted[a] = {}
            /\ gerr[a] # utils.ErrNotFound
            /\ pc[a] = "done" => ret[a] \in {NoErr, ErrIO}

\* the second call found no index and no cached index, and returned success
C6_Witness ==
    \E a \in Accts :
        /\ call[a] = "second" /\ lookupNF[a]
        /\ pc[a] = "done" /\ ret[a] = NoErr
        /\ ~aapDB[a].has /\ ~aapCache[a].cached

\* C7: when the guarded function ends with an error, the account is deleted
\* and every plan this execution persisted is still without the account id
\* when the function ends; the handler then returns an error and the account
\* stays deleted.
C7_NoRollback ==
    \A a \in Accts :
        /\ (pc[a] = "unguard" /\ gerr[a] # NoErr) =>
              /\ a \notin accountDB
              /\ \A p \in persisted[a] : a \notin planDB[p]
        /\ (pc[a] = "done" /\ gerr[a] # NoErr) =>
              /\ ret[a] # NoErr
              /\ a \notin accountDB

\* a plan was persisted, a later step failed, the handler returned the error
C7_Witness ==
    \E a \in Accts :
        /\ pc[a] = "done" /\ ret[a] = ErrIO
        /\ persisted[a] # {}
        /\ a \notin accountDB

\* C25: on every way out of the guarded function, each action plan that this
\* execution persisted without the account id has no cache entry that still
\* holds the account id when the lock is about to be released, also when the
\* load or the persist of a later plan failed.
C25_PersistedPlansInvalidated ==
    \A a \in Accts :
        pc[a] = "unguard" =>
            \A p \in persisted[a] : apCache[p].cached => a \notin apCache[p].ids

\* C26: the step of an execution whose deletion of the account fails ends the
\* handler with that error: it takes no lock and leaves the action plans, the
\* membership index and both caches as they are.
C26_DeleteFailureReturnsAtOnce ==
    [][\A a \in Accts :
          (pc[a] = "removeAccount" /\ ret'[a] = ErrIO) =>
              /\ pc'[a] = "done"
              /\ UNCHANGED <<accountDB, locks, planDB, aapDB, apCache, aapCache,
                             persisted, acntAPids>>]_vars

\* a first call returned the deletion's error: the account and its index are
\* still stored, nothing was persisted, and the other execution has the lock
C26_Witness ==
    \E a \in Accts :
        /\ call[a] = "first" /\ pc[a] = "done" /\ ret[a] = ErrIO /\ gerr[a] = NoErr
        /\ a \in accountDB /\ aapDB[a].has /\ persisted[a] = {}
        /\ \E b \in Accts \ {a} : locks[utils.ACTION_PLAN_PREFIX] = b

C30_FieldAsInterfaceFollowsPath ==
    fld.err # "" =>
        LET n == Len(fldPath)
            reach[k \in 0..n] ==
                IF k = 0 THEN [ok |-> TRUE, mp |-> nM]
                ELSE LET pr == reach[k - 1] IN
                     IF pr.ok /\ fldPath[k] \in DOMAIN pr.mp
                              /\ pr.mp[fldPath[k]].kind = "map"
                     THEN [ok |-> TRUE, mp |-> pr.mp[fldPath[k]].mp]
                     ELSE [ok |-> FALSE, mp |-> <<>>]
            inner == IF n = 0 THEN reach[0] ELSE reach[n - 1]
            found == n > 0 /\ inner.ok /\ fldPath[n] \in DOMAIN inner.mp
        IN  /\ fld.err = NoErr <=> found
            /\ found => fld.val = inner.mp[fldPath[n]]
            /\ ~found => fld.val = NilValue
            /\ n = 0 => fld.err = "empty field path"
            /\ (n > 0 /\ inner.ok /\ ~found) => fld.err = utils.ErrNotFound
            /\ (n > 0 /\ ~inner.ok) => fld.err \in {"no map at path", "cannot cast field"}
            /\ fld.err # "end of function"

\* a lookup through a nested map returned the string stored under the last key
C30_Witness ==
    /\ Len(fldPath) = 2 /\ fld.err = NoErr /\ fld.val.kind = "string"
    /\ nM[fldPath[1]].kind = "map"
    /\ DOMAIN nM = {"a", "b"} /\ nM["a"].kind # nM["b"].kind

\* ------------------------------------------------------------------------
\* Claims about Actions.Sort, checked under SpecSort

\* C4: Sort() is stable: two actions of equal Weight are, after Sort(), in the
\* order they had in the input.
C4_SortStable ==
    sorted => \A i, j \in 1..Len(apl) :
                 (i < j /\ apl[i].Weight = apl[j].Weight) => apl[i].Id < apl[j].Id

\* C5: after Sort() the list holds the same actions as the input, each once,
\* and the Weights do not increase from the first element to the last.
C5_SortedPermutation ==
    sorted =>
        /\ Len(apl) = Len(apl0)
        /\ \A k \in 1..Len(apl0) : Cardinality({i \in 1..Len(apl) : apl[i] = apl0[k]}) = 1
        /\ \A i, j \in 1..Len(apl) : i < j => apl[i].Weight >= apl[j].Weight

\* a list of full length that was not sorted has been sorted
C5_Witness ==
    /\ sorted
    /\ Len(apl) = MaxLen
    /\ apl # apl0
    /\ \E i, j \in 1..Len(apl0) : i < j /\ apl0[i].Weight < apl0[j].Weight

\* ------------------------------------------------------------------------
\* Claims about the handlers, checked under SpecHandlers and SpecBalances

\* C3: every handler of an action type that needs an account, called with a
\* nil account, returns an error, does not panic and changes no state.
C3_NilAccountIsAnError ==
    (ran # "" /\ ub0.nil) =>
        /\ herr \notin {NoErr, Panic}
        /\ ub = ub0
        /\ published = {}
        /\ act.balanceValue = 0
        /\ \A d \in DestIds : destDB[d].prefixes \subseteq {"+40"}

\* C8: remove_balance with a filter that matches no balance of the type bucket,
\* or whose type has no bucket, returns not found and leaves the account as
\* it was: the bucket keeps its balances in their order, no bucket is created.
C8_RemoveBalanceNoMatch ==
    ran = ActionTypes.REMOVE_BALANCE =>
        LET f == act.Balance
            bm == ub0.BalanceMap
        IN  /\ f.Type \notin DOMAIN bm => (herr = utils.ErrNotFound /\ ub = ub0)
            /\ (/\ f.Type \in DOMAIN bm
                /\ \A i \in 1..Len(bm[f.Type]) : ~MatchFilter(bm[f.Type][i], f, FALSE, FALSE))
                   => (herr = utils.ErrNotFound /\ ub = ub0)

\* a full bucket none of whose balances matches, and the not-found error
C8_Witness ==
    /\ ran = ActionTypes.REMOVE_BALANCE
    /\ act.Balance.Type = utils.MONETARY
    /\ Len(ub0.BalanceMap[utils.MONETARY]) = MaxBal
    /\ \A i \in 1..MaxBal : ~MatchFilter(ub0.BalanceMap[utils.MONETARY][i], act.Balance, FALSE, FALSE)
    /\ herr = utils.ErrNotFound

\* C9: set_expiry gives the filter's expiration date to every balance of the
\* action's type bucket that matches the filter and changes nothing else:
\* every bucket keeps its length and order, every balance its other fields,
\* every other balance its expiration date.
C9_SetExpiryFrame ==
    ran = ActionTypes.SetExpiry =>
        LET f == act.Balance
            bm0 == ub0.BalanceMap
            bm == ub.BalanceMap
        IN  /\ herr = NoErr
            /\ [ub EXCEPT !.BalanceMap = bm0] = ub0
            /\ DOMAIN bm = DOMAIN bm0
            /\ \A t \in DOMAIN bm0 :
                 /\ Len(bm[t]) = Len(bm0[t])
                 /\ \A i \in 1..Len(bm0[t]) :
                      bm[t][i] = [bm0[t][i] EXCEPT !.ExpirationDate =
                                    IF t = f.Type /\ MatchFilter(bm0[t][i], f, FALSE, TRUE)
                                    THEN f.ExpirationDate ELSE @]

\* two balances matched and took a new expiration date, a third did not match
C9_Witness ==
    /\ ran = ActionTypes.SetExpiry
    /\ act.Balance.Type = utils.MONETARY
    /\ \E i, j, k \in 1..Len(ub0.BalanceMap[utils.MONETARY]) :
         /\ i # j
         /\ MatchFilter(ub0.BalanceMap[utils.MONETARY][i], act.Balance, FALSE, TRUE)
         /\ MatchFilter(ub0.BalanceMap[utils.MONETARY][j], act.Balance, FALSE, TRUE)
         /\ ~MatchFilter(ub0.BalanceMap[utils.MONETARY][k], act.Balance, FALSE, TRUE)
         /\ ub0.BalanceMap[utils.MONETARY][i].ExpirationDate # act.Balance.ExpirationDate
         /\ ub.BalanceMap[utils.MONETARY][i].ExpirationDate = act.Balance.ExpirationDate
         /\ ub.BalanceMap[utils.MONETARY][j].ExpirationDate = act.Balance.ExpirationDate
         /\ ub.BalanceMap[utils.MONETARY][k] = ub0.BalanceMap[utils.MONETARY][k]

\* ------------------------------------------------------------------------
\* Claims about cdrlog, checked under SpecCdr

\* the action types of the siblings cdrlog makes a CDR for
EligibleTypes(l) ==
    SelectSeq([i \in 1..Len(l) |-> IF l[i].ActionType \in {ActionTypes.DEBIT, ActionTypes.DEBIT_RESET, ActionTypes.TOPUP, ActionTypes.TOPUP_RESET}
                                      /\ ~l[i].Balance.nil
                                   THEN l[i].ActionType ELSE ""],
              LAMBDA t : t # "")
RunIDs(cdrs) == [i \in 1..Len(cdrs) |-> cdrs[i].RunID]

\* C10 as stated: whenever cdrlog has run, the CDRs it synthesized (the batch
\* it leaves on the action and, with a store configured, the CDRs set in the
\* store) are one per DEBIT, DEBIT_RESET, TOPUP or TOPUP_RESET sibling with a
\* Balance, in sibling order, and none for any other sibling.
C10_OneCdrPerEligibleSibling ==
    ran = ActionTypes.CDRLOG =>
        /\ RunIDs(act.ExpirationString) = EligibleTypes(acs)
        /\ cdrStorage => RunIDs(cdrDB) = EligibleTypes(acs)

\* C10 amended: the same, for the calls of cdrlog that return no error.
C10_OneCdrPerEligibleSiblingOnSuccess ==
    (ran = ActionTypes.CDRLOG /\ herr = NoErr) =>
        /\ RunIDs(act.ExpirationString) = EligibleTypes(acs)
        /\ cdrStorage => RunIDs(cdrDB) = EligibleTypes(acs)

\* a list with two eligible siblings around one that is not: two CDRs, stored
C10_Witness ==
    /\ ran = ActionTypes.CDRLOG /\ herr = NoErr /\ cdrStorage
    /\ Len(acs) = 3
    /\ acs[1].ActionType = ActionTypes.TOPUP /\ acs[2].ActionType = ActionTypes.LOG /\ acs[3].ActionType = ActionTypes.DEBIT
    /\ RunIDs(cdrDB) = <<ActionTypes.TOPUP, ActionTypes.DEBIT>>
    /\ Len(act.ExpirationString) = 2

\* ------------------------------------------------------------------------
\* Claims about the balance handlers and cdrlog, checked under SpecRun

\* C11: under the default field template, the cost of each CDR cdrlog
\* synthesized equals the value its sibling action applied, the balanceValue
\* the sibling's execution recorded on it.
C11_CostIsAppliedValue ==
    (ran = ActionTypes.CDRLOG /\ herr = NoErr /\ act.ExtraParameters = "") =>
        LET logged == SelectSeq(acs, Logged)
            cdrs == act.ExpirationString
        IN  /\ Len(cdrs) = Len(logged)
            /\ \A i \in 1..Len(cdrs) : cdrs[i].Cost = logged[i].balanceValue

\* C12: the execution of a topup with a positive Balance value v leaves every
\* balance of the monetary bucket that matches its filter, and held x, at x + v.
C12_TopupCredits ==
    [][(next' = next + 1 /\ next <= Len(acs)
        /\ acs[next].ActionType = ActionTypes.TOPUP /\ acs[next].Balance.Value > 0)
       => \A i \in 1..Len(ub.BalanceMap[utils.MONETARY]) :
            MatchFilter(ub.BalanceMap[utils.MONETARY][i], acs[next].Balance, FALSE, FALSE)
            => ub'.BalanceMap[utils.MONETARY][i].Value
                 = ub.BalanceMap[utils.MONETARY][i].Value + acs[next].Balance.Value]_vars

\* a topup of 5 was executed on the balance of 10, which holds 15
C12_Witness ==
    /\ next = 2 /\ acs[1].ActionType = ActionTypes.TOPUP /\ acs[1].Balance.Value = 5
    /\ ub0.BalanceMap[utils.MONETARY][1].Value = 10
    /\ ub.BalanceMap[utils.MONETARY][1].Value = 15
    /\ Len(ub.BalanceMap[utils.MONETARY]) = 1

\* C13: a topup of v followed immediately by a debit of v with the same filter,
\* on a bucket that has just been zeroed (the account started with it zeroed,
\* or reset_account was executed right before), leaves every balance of the
\* bucket, the one they worked on included, at zero.
C13_TopupThenDebitIsZero ==
    LET ZeroedBefore(k) ==
          \/ k = 1 /\ ub0.BalanceMap[utils.MONETARY] = <<ZeroBalance>>
          \/ k > 1 /\ acs[k - 1].ActionType = ActionTypes.RESET_ACCOUNT
    IN  \A k \in 1..MaxSiblings :
          (next = k + 2 /\ ZeroedBefore(k)
           /\ acs[k].ActionType = ActionTypes.TOPUP /\ acs[k + 1].ActionType = ActionTypes.DEBIT
           /\ acs[k].Balance = acs[k + 1].Balance /\ acs[k].Balance.Value > 0)
          => \A i \in 1..Len(ub.BalanceMap[utils.MONETARY]) :
                ub.BalanceMap[utils.MONETARY][i].Value = 0

\* reset_account, then a topup of 12 and a debit of 12 on a balance the topup
\* created
C13_Witness ==
    /\ next = 4 /\ Len(acs) = 3
    /\ acs[1].ActionType = ActionTypes.RESET_ACCOUNT
    /\ acs[2].ActionType = ActionTypes.TOPUP /\ acs[3].ActionType = ActionTypes.DEBIT
    /\ acs[2].Balance = acs[3].Balance /\ acs[2].Balance.Value = 12
    /\ Len(ub.BalanceMap[utils.MONETARY]) = 2
    /\ \A i \in 1..2 : ub.BalanceMap[utils.MONETARY][i].Value = 0

\* ------------------------------------------------------------------------
\* Claims about Actions.Clone, checked under SpecClone

\* C14: a write to any field of any action through the clone (the fields of
\* its Balance filter and the bools its flags point to included) changes no
\* value of the original list, and a write through the original changes no
\* value of the clone.
C14_CloneSharesNothing ==
    [][/\ wrote' = "cln" => View(heap', orig') = View(heap, orig)
       /\ wrote' = "orig" => View(heap', cln'.apl) = View(heap, cln.apl)]_vars

\* the bool the clone's Disabled points to was set to true, the original's is
\* still false
C14_Witness ==
    /\ wrote = "cln"
    /\ View(heap, cln.apl)[1].Balance.Disabled = "true"
    /\ View(heap, orig)[1].Balance.Disabled = "false"

\* C15: right after Clone, for every action with a Balance, the clone's
\* Disabled is absent, explicit false or explicit true as the original's is,
\* and so is its Blocker.
C15_CloneKeepsFlags ==
    (cln.apl # <<>> /\ wrote = "") =>
        \A i \in 1..Len(orig) :
            ~View(heap, orig)[i].Balance.nil =>
                /\ ~View(heap, cln.apl)[i].Balance.nil
                /\ \A f \in Flags :
                     View(heap, cln.apl)[i].Balance[f] = View(heap, orig)[i].Balance[f]

\* a list was cloned whose first action has Disabled explicit false and
\* Blocker absent, and whose second has Blocker explicit true
C15_Witness ==
    /\ cln.apl # <<>> /\ wrote = "" /\ Len(orig) = 2
    /\ View(heap, orig)[1].Balance.Disabled = "false"
    /\ View(heap, orig)[1].Balance.Blocker = "absent"
    /\ View(heap, orig)[2].Balance.Blocker = "true"
    /\ View(heap, cln.apl)[1].Balance.Disabled = "false"

\* ------------------------------------------------------------------------
\* Claims about the notification handlers, checked under SpecNotify

\* C16: the mail task makes at most 5 send attempts, none after the first
\* that succeeded, and is over once the fifth has failed; mail_async returns
\* no send failure, and has returned success whenever the task was launched.
C16_MailBoundedRetry ==
    req.typ = ActionTypes.MAIL_ASYNC =>
        /\ Len(remote) <= 5
        /\ \A k \in 1..(Len(remote) - 1) : remote[k].err # NoErr
        /\ (Len(remote) = 5 /\ remote[5].err # NoErr) => task = [pc |-> "done", i |-> 0]
        /\ rerr # ErrIO
        /\ task.pc # "none" => rerr = NoErr

\* five attempts failed, the task is over and the handler had returned success
C16_Witness ==
    /\ req.typ = ActionTypes.MAIL_ASYNC /\ rerr = NoErr /\ task = [pc |-> "done", i |-> 0]
    /\ Len(remote) = 5 /\ \A k \in 1..5 : remote[k].err = ErrIO

\* C17 as stated: when all five attempts have failed the task has slept 0, 1,
\* 2, 3 and 4 minutes.
C17_SleepsFiveTimes ==
    (/\ req.typ = ActionTypes.MAIL_ASYNC /\ task = [pc |-> "done", i |-> 0]
     /\ Len(remote) = 5 /\ remote[5].err # NoErr) => slept = <<0, 1, 2, 3, 4>>

\* C17: the k-th sleep of the mail task lasts k-1 minutes, every attempt after
\* the first comes after one more sleep, and no sleep follows the attempt the
\* task ends with: when all five attempts have failed the task has slept 0, 1,
\* 2 and 3 minutes.
C17_SleepsBetweenAttempts ==
    req.typ = ActionTypes.MAIL_ASYNC =>
        /\ \A k \in 1..Len(slept) : slept[k] = k - 1
        /\ task.pc = "mail" => Len(slept) = Len(remote)
        /\ task = [pc |-> "done", i |-> 0] => Len(slept) = Len(remote) - 1

\* all five attempts failed after sleeps of 0, 1, 2 and 3 minutes
C17_Witness ==
    /\ req.typ = ActionTypes.MAIL_ASYNC /\ task = [pc |-> "done", i |-> 0]
    /\ Len(remote) = 5 /\ remote[5].err = ErrIO
    /\ slept = <<0, 1, 2, 3>>

\* C18: call_url_async has returned success while the post is still to be
\* made, and whatever the post's outcome it returns no delivery error; when
\* call_url has returned the post was made and its error is what call_url
\* returned (the payload having been serialised in both cases).
C18_UrlSyncAndAsync ==
    /\ (req.typ = ActionTypes.CALL_URL_ASYNC /\ req.fail = NoErr) =>
          /\ rerr = NoErr
          /\ task.pc = "post" => remote = <<>>
    /\ (req.typ = ActionTypes.CALL_URL /\ req.fail = NoErr) =>
          Len(remote) = 1 /\ rerr = remote[1].err

\* the goroutine's post failed after call_url_async had returned success
C18_Witness ==
    /\ req.typ = ActionTypes.CALL_URL_ASYNC /\ rerr = NoErr
    /\ task = [pc |-> "done", i |-> 0] /\ Len(remote) = 1 /\ remote[1].err = ErrIO

\* C19: when Params could not be decoded into the input shape (the decoding
\* failed, or the input shape is nil) cgr_rpc returns the parser error and the
\* remote method is not invoked, neither by the handler nor by a goroutine.
C19_UndecodedIsParserError ==
    (/\ req.typ = ActionTypes.CGR_RPC /\ req.fail = NoErr
     /\ (req.decodeErr \/ req.inNil)) =>
        /\ rerr = utils.ErrParserError
        /\ remote = <<>>
        /\ task.pc = "none"

\* ------------------------------------------------------------------------
\* Claims about the dispatcher, checked under SpecDispatcher

\* C20: a session method other than Ping has called the session service only
\* if the dispatcher is connected, authorizeEvent returned no error, the reply
\* has the APIMethods field and the field lists the method's own name, and it
\* then called it with its own name; in every other case it returned an error
\* and the session service was not called.
C20_SessionCallsAuthorized ==
    (req.typ # "" /\ req.typ # utils.SessionSv1Ping) =>
        LET listed == /\ req.connected /\ req.authErr = NoErr /\ req.hasField
                      /\ \E k \in 1..Len(req.apiMethods) : req.apiMethods[k] = req.typ
            calls == SelectSeq(remote, LAMBDA x : x.kind = "sessionS")
        IN  /\ listed => calls = <<[kind |-> "sessionS", method |-> req.typ, err |-> rerr]>>
            /\ listed => remote[1] = [kind |-> "authorizeEvent", method |-> req.typ, err |-> NoErr]
            /\ ~listed => calls = <<>> /\ rerr # NoErr

\* ProcessCDR was passed on to the session service after an authorization
\* whose APIMethods lists it second
C20_Witness ==
    /\ req.typ = utils.SessionSv1ProcessCDR
    /\ req.apiMethods = <<utils.SessionSv1ProcessEvent, utils.SessionSv1ProcessCDR>>
    /\ Len(remote) = 2 /\ remote[2].kind = "sessionS" /\ rerr = NoErr

\* ------------------------------------------------------------------------
\* Claims about transfer_monetary_default and remove_balance, checked under
\* SpecBalances

\* C21: after transfer_monetary_default every balance of the monetary bucket
\* other than the default balance itself (another balance with the default's
\* ID included) that matches the filter and had a positive value has value 0,
\* and the default balance has grown by the sum of those values.
C21_TransferEmptiesOthers ==
    (ran = ActionTypes.TRANSFER_MONETARY_DEFAULT /\ herr = NoErr) =>
        LET old == WithDefault(ub0.BalanceMap[utils.MONETARY])
            new == ub.BalanceMap[utils.MONETARY]
            d == DefaultIndex(old)
            moved == {i \in 1..Len(old) : /\ i # d
                                          /\ MatchFilter(old[i], act.Balance, FALSE, FALSE)
                                          /\ old[i].Value > 0}
            RECURSIVE Sum(_)
            Sum(is) == IF is = {} THEN 0
                       ELSE LET i == CHOOSE x \in is : TRUE IN old[i].Value + Sum(is \ {i})
        IN  /\ Len(new) = Len(old)
            /\ \A i \in moved : new[i].Value = 0
            /\ new[d].Value = old[d].Value + Sum(moved)

\* C22: when remove_balance returns no error the type bucket holds no balance
\* that matches the filter and holds exactly the balances that did not match
\* before the call, in any order.
C22_RemoveBalanceKeepsOthers ==
    (ran = ActionTypes.REMOVE_BALANCE /\ herr = NoErr) =>
        LET old == ub0.BalanceMap[act.Balance.Type]
            new == ub.BalanceMap[act.Balance.Type]
            kept == {i \in 1..Len(old) : ~MatchFilter(old[i], act.Balance, FALSE, FALSE)}
        IN  /\ \A i \in 1..Len(new) : ~MatchFilter(new[i], act.Balance, FALSE, FALSE)
            /\ {new[i] : i \in 1..Len(new)} = {old[i] : i \in kept}
            /\ Len(new) = Cardinality(kept)
            /\ [ub EXCEPT !.BalanceMap[act.Balance.Type] = old] = ub0

\* the first and the last balance of a full bucket matched and were removed,
\* the one between them is what the bucket holds
C22_Witness ==
    /\ ran = ActionTypes.REMOVE_BALANCE /\ herr = NoErr
    /\ act.Balance.Type = utils.MONETARY
    /\ LET old == ub0.BalanceMap[utils.MONETARY] IN
         /\ Len(old) = MaxBal
         /\ MatchFilter(old[1], act.Balance, FALSE, FALSE)
         /\ MatchFilter(old[MaxBal], act.Balance, FALSE, FALSE)
         /\ ~MatchFilter(old[2], act.Balance, FALSE, FALSE)
         /\ ub.BalanceMap[utils.MONETARY] = <<old[2]>>

\* C28: transfer_monetary_default leaves the sum of the values of the monetary
\* bucket as it was, leaves negative only the values that were negative
\* before, and changes nothing outside the monetary bucket.
C28_TransferConservesMoney ==
    ran = ActionTypes.TRANSFER_MONETARY_DEFAULT =>
        LET old == ub0.BalanceMap[utils.MONETARY]
            new == ub.BalanceMap[utils.MONETARY]
            RECURSIVE Sum(_)
            Sum(chain) == IF chain = <<>> THEN 0 ELSE Head(chain).Value + Sum(Tail(chain))
        IN  /\ Sum(new) = Sum(old)
            /\ \A i \in 1..Len(new) :
                 new[i].Value < 0 => (i <= Len(old) /\ old[i].Value = new[i].Value)
            /\ [ub EXCEPT !.BalanceMap[utils.MONETARY] = old] = ub0

\* two positive balances were emptied into the default balance, a negative one
\* kept its value
C28_Witness ==
    /\ ran = ActionTypes.TRANSFER_MONETARY_DEFAULT /\ herr = NoErr
    /\ LET old == ub0.BalanceMap[utils.MONETARY]
           new == ub.BalanceMap[utils.MONETARY]
       IN  /\ Len(old) = 3 /\ Len(new) = 4
           /\ old[1].Value > 0 /\ new[1].Value = 0
           /\ old[2].Value < 0 /\ new[2].Value = old[2].Value
           /\ old[3].Value > 0 /\ new[3].Value = 0
           /\ new[4].Value = old[1].Value + old[3].Value

\* ------------------------------------------------------------------------
\* Claims about the top-up handlers, checked under SpecHandlers

\* C23: topup_zero_negative does what topup does (it debits a clone of the
\* action whose positive Balance value was negated, and records the clone's
\* balanceValue on the action) but for the zero-or-negative flag it hands to
\* the debit primitive.
C23_ZeroNegativeIsTopupWithFlag ==
    (ran = ActionTypes.TopUpZeroNegative /\ ~ub0.nil) =>
        LET c == genericMakeNegative([act EXCEPT !.balanceValue = 0])
            r == debitBalanceAction(ub0, c, FALSE, TRUE)
        IN  /\ herr = r.err
            /\ ub = r.ub
            /\ act.balanceValue = r.a.balanceValue

\* C24: topup and topup_reset leave the Balance of the action they are given
\* as it was and write only its balanceValue; what they hand to the debit
\* primitive is the action with a positive value v turned into -v and a value
\* <= 0 kept, so never a positive value, and normalizing it again changes
\* nothing.
C24_TopupNormalizesAClone ==
    [][(/\ ran = "" /\ ~ub.nil
        /\ ran' \in {ActionTypes.TOPUP, ActionTypes.TOPUP_RESET}) =>
          LET v == act.Balance.Value
              c == genericMakeNegative([act EXCEPT !.balanceValue = 0])
          IN  /\ act'.Balance = act.Balance
              /\ act' = [act EXCEPT !.ActionType = ran', !.balanceValue = act'.balanceValue]
              /\ c.Balance = [act.Balance EXCEPT !.Value = IF v > 0 THEN 0 - v ELSE v]
              /\ c.Balance.Value <= 0
              /\ genericMakeNegative(c) = c
              /\ ub' = debitBalanceAction(ub, c, ran' = ActionTypes.TOPUP_RESET, FALSE).ub]_vars

\* a topup of 5 credited a balance of 5, the action still asks for 5 and its
\* balanceValue is -5
C24_Witness ==
    /\ ran = ActionTypes.TOPUP /\ herr = NoErr
    /\ act.Balance.Value = 5 /\ act.balanceValue = 0 - 5
    /\ utils.MONETARY \in DOMAIN ub0.BalanceMap
    /\ act.Balance.Type = utils.MONETARY
    /\ \E i \in 1..Len(ub.BalanceMap[utils.MONETARY]) :
         /\ ub0.BalanceMap[utils.MONETARY][i].Value = 5
         /\ ub.BalanceMap[utils.MONETARY][i].Value = 10

\* C27: after reset_account on a non-nil account every bucket key of the
\* balance map is still there and maps to exactly one balance, of value 0, no
\* key was added, the counters are reinitialized and no trigger is left marked
\* as executed; nothing else of the account has changed.
C27_ResetAccountZeroes ==
    (ran = ActionTypes.RESET_ACCOUNT /\ ~ub0.nil) =>
        /\ herr = NoErr
        /\ DOMAIN ub.BalanceMap = DOMAIN ub0.BalanceMap
        /\ \A k \in DOMAIN ub.BalanceMap :
             Len(ub.BalanceMap[k]) = 1 /\ ub.BalanceMap[k][1].Value = 0
        /\ ub.UnitCounters = [nil |-> FALSE, value |-> 0]
        /\ Len(ub.ActionTriggers) = Len(ub0.ActionTriggers)
        /\ \A i \in 1..Len(ub.ActionTriggers) :
             ub.ActionTriggers[i] = [ub0.ActionTriggers[i] EXCEPT !.Executed = FALSE]
        /\ [ub EXCEPT !.BalanceMap = ub0.BalanceMap, !.UnitCounters = ub0.UnitCounters,
                      !.ActionTriggers = ub0.ActionTriggers] = ub0

\* an account with two monetary balances, a voice balance, counters at 3 and
\* an executed trigger was reset
C27_Witness ==
    /\ ran = ActionTypes.RESET_ACCOUNT /\ herr = NoErr
    /\ DOMAIN ub0.BalanceMap = {utils.MONETARY, utils.VOICE}
    /\ Len(ub0.BalanceMap[utils.MONETARY]) = 2
    /\ ub0.UnitCounters.value = 3
    /\ ub0.ActionTriggers[1].Executed
    /\ ub.BalanceMap[utils.MONETARY] = <<ZeroBalance>>
    /\ ub.BalanceMap[utils.VOICE] = <<ZeroBalance>>

====
